---- MODULE Spec2Model ----
(***************************************************************************)
(* Model of src/ai_eval.c: the chess evaluator and minimax search core.    *)
(* Board state, move generator, move applier, evaluator, transposition    *)
(* cache and search driver are translated function by function.  Doubles   *)
(* are modelled by integers (all weights used are integral).               *)
(***************************************************************************)
EXTENDS Integers, Sequences, FiniteSets, TLC

MAX_PIECES == 64
MAX_MOVES == 256

PIECE_PAWN == 0
PIECE_KNIGHT == 1
PIECE_BISHOP == 2
PIECE_ROOK == 3
PIECE_QUEEN == 4
PIECE_KING == 5

STATUS_IN_PROGRESS == 0
STATUS_DRAW == 1
STATUS_WIN == 2

----------------------------------------------------------------------------
(* Small helpers *)

is_inside(col, row) == col >= 0 /\ col < 8 /\ row >= 0 /\ row < 8

opponent_color(color) == IF color = 0 THEN 1 ELSE 0

is_corner_square(col, row) == (col = 0 \/ col = 7) /\ (row = 0 \/ row = 7)

is_corner_touch_square(col, row) ==
    \/ ((col = 1 \/ col = 6) /\ (row = 0 \/ row = 7))
    \/ ((row = 1 \/ row = 6) /\ (col = 0 \/ col = 7))

is_center_square(col, row) == (col = 3 \/ col = 4) /\ (row = 3 \/ row = 4)

is_center_cross_square(col, row) ==
    \/ (col = 2 /\ (row = 3 \/ row = 4))
    \/ (col = 3 /\ (row = 2 \/ row = 5))
    \/ (col = 4 /\ (row = 2 \/ row = 5))
    \/ (col = 5 /\ (row = 3 \/ row = 4))

is_center_diagonal_square(col, row) == (col = 2 \/ col = 5) /\ (row = 2 \/ row = 5)

\* Seeded fault: a rook on the rim takes the multipliers of the other pieces.
square_weight_rook_blind(piece_type, col, row, position_multipliers, has_position_multipliers) ==
    IF has_position_multipliers = 0 THEN 1
    ELSE IF is_corner_square(col, row) THEN position_multipliers[3]
    ELSE IF is_corner_touch_square(col, row) THEN position_multipliers[5]
    ELSE IF is_center_square(col, row) THEN position_multipliers[0]
    ELSE IF is_center_cross_square(col, row) THEN position_multipliers[1]
    ELSE IF is_center_diagonal_square(col, row) THEN position_multipliers[2]
    ELSE 1

square_weight_for_piece(piece_type, col, row, position_multipliers, has_position_multipliers) ==
    IF has_position_multipliers = 0 THEN 1
    ELSE IF is_corner_square(col, row)
         THEN (IF piece_type = PIECE_ROOK THEN position_multipliers[4] ELSE position_multipliers[3])
    ELSE IF is_corner_touch_square(col, row)
         THEN (IF piece_type = PIECE_ROOK THEN position_multipliers[6] ELSE position_multipliers[5])
    ELSE IF is_center_square(col, row) THEN position_multipliers[0]
    ELSE IF is_center_cross_square(col, row) THEN position_multipliers[1]
    ELSE IF is_center_diagonal_square(col, row) THEN position_multipliers[2]
    ELSE 1

\* Score: a pair (material, heuristic)
MkScore(m, h) == [material |-> m, heuristic |-> h]

\* The sentinel 1e300 of the best-score initialisers (lines 927-928, 944-945 and
\* 1114-1115). The model's numbers are integers below 2^31 and 1e300 is beyond
\* all of them, so a score initialised to (sign * 1e300, sign * 1e300) carries
\* the mark beyond = sign; SENTINEL only fills its two fields.
SENTINEL == 1000000000

SentinelScore(sign) ==
    [material |-> sign * SENTINEL, heuristic |-> sign * SENTINEL, beyond |-> sign]

\* -1 or 1 for a score of sentinels, 0 for a score of numbers the model holds.
beyond(score) == IF "beyond" \in DOMAIN score THEN score.beyond ELSE 0

\* Seeded fault: the two components collapsed into one sum before comparing.
compare_score_sum(a, b) ==
    IF a.material + a.heuristic < b.material + b.heuristic THEN -1
    ELSE IF a.material + a.heuristic > b.material + b.heuristic THEN 1
    ELSE 0

\* Lines 133-147. Two scores of which one is a score of sentinels differ in the
\* material component already, the sentinel being beyond every number.
compare_score(a, b) ==
    IF beyond(a) < beyond(b) THEN -1
    ELSE IF beyond(a) > beyond(b) THEN 1
    ELSE IF a.material < b.material THEN -1
    ELSE IF a.material > b.material THEN 1
    ELSE IF a.heuristic < b.heuristic THEN -1
    ELSE IF a.heuristic > b.heuristic THEN 1
    ELSE 0

WIN_SCORE == 100000

score_for_winner(winner, perspective_color) ==
    MkScore(IF winner = perspective_color THEN WIN_SCORE ELSE -WIN_SCORE, 0)

draw_score == MkScore(0, 0)

----------------------------------------------------------------------------
(* Board state *)

clear_board == [row \in 0..7 |-> [col \in 0..7 |-> -1]]

\* A pointer argument is NULL when the host's argument record lists it in null_args.
is_null(inp, arg) == arg \in inp.null_args

\* arr[i] = v on an array whose slots 0..i-1 are the ones written so far.
store(arr, i, v) == [j \in (DOMAIN arr) \cup {i} |-> IF j = i THEN v ELSE arr[j]]

\* Seeded fault: the body of the loop of init_state without the test of the color.
init_piece_any_color(state, inp, i) ==
    IF ~is_inside(inp.piece_cols[i], inp.piece_rows[i]) THEN [ok |-> 0, state |-> state]
    ELSE IF inp.piece_types[i] < PIECE_PAWN \/ inp.piece_types[i] > PIECE_KING
         THEN [ok |-> 0, state |-> state]
    ELSE IF state.board[inp.piece_rows[i]][inp.piece_cols[i]] # -1 THEN [ok |-> 0, state |-> state]
    ELSE [ok |-> 1,
          state |-> [state EXCEPT !.piece_type = store(@, i, inp.piece_types[i]),
                                  !.piece_color = store(@, i, inp.piece_colors[i]),
                                  !.piece_col = store(@, i, inp.piece_cols[i]),
                                  !.piece_row = store(@, i, inp.piece_rows[i]),
                                  !.piece_moved = store(@, i,
                                       IF ~is_null(inp, "piece_moved") THEN inp.piece_moved[i] ELSE 0),
                                  !.alive = store(@, i, 1),
                                  !.board[inp.piece_rows[i]][inp.piece_cols[i]] = i]]

\* The body of the for loop of init_state (lines 193-216) for piece i: ok = 0 is the
\* return 0 of one of the four tests.
init_piece(state, inp, i) ==
    LET piece_type == inp.piece_types[i]
        piece_color == inp.piece_colors[i]
        col == inp.piece_cols[i]
        row == inp.piece_rows[i]
    IN IF ~is_inside(col, row) THEN [ok |-> 0, state |-> state]
       ELSE IF piece_type < PIECE_PAWN \/ piece_type > PIECE_KING THEN [ok |-> 0, state |-> state]
       ELSE IF piece_color # 0 /\ piece_color # 1 THEN [ok |-> 0, state |-> state]
       ELSE IF state.board[row][col] # -1 THEN [ok |-> 0, state |-> state]
       ELSE [ok |-> 1,
             state |-> [state EXCEPT !.piece_type = store(@, i, piece_type),
                                     !.piece_color = store(@, i, piece_color),
                                     !.piece_col = store(@, i, col),
                                     !.piece_row = store(@, i, row),
                                     !.piece_moved = store(@, i,
                                          IF ~is_null(inp, "piece_moved") THEN inp.piece_moved[i] ELSE 0),
                                     !.alive = store(@, i, 1),
                                     !.board[row][col] = i]]

\* The for loop of init_state over pieces lo..hi in order, taken by halves; it
\* ends at the first piece that is rejected.
RECURSIVE init_pieces(_, _, _, _)
init_pieces(state, inp, lo, hi) ==
    IF lo > hi THEN [ok |-> 1, state |-> state]
    ELSE IF lo = hi THEN init_piece(state, inp, lo)
    ELSE LET first == init_pieces(state, inp, lo, (lo + hi) \div 2)
         IN IF first.ok = 0 THEN first
            ELSE init_pieces(first.state, inp, ((lo + hi) \div 2) + 1, hi)

\* inp carries init_state's arguments: the piece arrays, piece_count, the four
\* en-passant fields and halfmove_clock.
init_state(inp) ==
    IF inp.piece_count < 0 \/ inp.piece_count > MAX_PIECES
    THEN [ok |-> 0, state |-> [piece_count |-> inp.piece_count]]
    ELSE
      LET none == [j \in {} |-> 0]
          filled == init_pieces(
                      [piece_count |-> inp.piece_count,
                       piece_type |-> none, piece_color |-> none,
                       piece_col |-> none, piece_row |-> none,
                       piece_moved |-> none, alive |-> none,
                       board |-> clear_board], inp, 0, inp.piece_count - 1)
      IN IF filled.ok = 0 THEN filled
         ELSE [ok |-> 1,
               state |-> [piece_count |-> filled.state.piece_count,
                          piece_type |-> filled.state.piece_type,
                          piece_color |-> filled.state.piece_color,
                          piece_col |-> filled.state.piece_col,
                          piece_row |-> filled.state.piece_row,
                          piece_moved |-> filled.state.piece_moved,
                          alive |-> filled.state.alive,
                          board |-> filled.state.board,
                          en_passant_target_col |-> inp.en_passant_target_col,
                          en_passant_target_row |-> inp.en_passant_target_row,
                          en_passant_capture_col |-> inp.en_passant_capture_col,
                          en_passant_capture_row |-> inp.en_passant_capture_row,
                          halfmove_clock |-> inp.halfmove_clock]]

----------------------------------------------------------------------------
(* Move generator *)

MkMove(from_col, from_row, to_col, to_row, promotion_type) ==
    [from_col |-> from_col, from_row |-> from_row,
     to_col |-> to_col, to_row |-> to_row, promotion_type |-> promotion_type]

\* e, with the move list built so far computed first (evaluation order only).
then(list, e) == IF Len(list) >= 0 THEN e ELSE list

\* A MoveList is the sequence entries[0..count-1]; overflow drops the move.
append_move(list, from_col, from_row, to_col, to_row, promotion_type) ==
    IF Len(list) >= MAX_MOVES THEN list
    ELSE Append(list, MkMove(from_col, from_row, to_col, to_row, promotion_type))

\* pawn_diagonal without the tests of lines 286-293 on the en-passant capture square.
pawn_diagonal_any_window(state, piece_index, delta_col, list) ==
    LET piece_color == state.piece_color[piece_index]
        col == state.piece_col[piece_index]
        row == state.piece_row[piece_index]
        direction == IF piece_color = 0 THEN 1 ELSE -1
        capture_col == col + delta_col
        capture_row == row + direction
    IN IF ~is_inside(capture_col, capture_row) THEN list
       ELSE
         LET target_index == state.board[capture_row][capture_col]
         IN IF target_index # -1 /\ state.alive[target_index] # 0
                /\ state.piece_color[target_index] # piece_color
            THEN append_move(list, col, row, capture_col, capture_row,
                             IF capture_row = 0 \/ capture_row = 7 THEN PIECE_QUEEN ELSE -1)
            ELSE IF /\ state.en_passant_target_col = capture_col
                    /\ state.en_passant_target_row = capture_row
                    /\ state.board[capture_row][capture_col] = -1
                    /\ is_inside(state.en_passant_capture_col, state.en_passant_capture_row)
                 THEN append_move(list, col, row, capture_col, capture_row, -1)
                 ELSE list

\* pawn_diagonal without the en-passant branch of lines 279-297.
pawn_diagonal_captures_only(state, piece_index, delta_col, list) ==
    LET piece_color == state.piece_color[piece_index]
        col == state.piece_col[piece_index]
        row == state.piece_row[piece_index]
        direction == IF piece_color = 0 THEN 1 ELSE -1
        capture_col == col + delta_col
        capture_row == row + direction
    IN IF ~is_inside(capture_col, capture_row) THEN list
       ELSE
         LET target_index == state.board[capture_row][capture_col]
         IN IF target_index # -1 /\ state.alive[target_index] # 0
                /\ state.piece_color[target_index] # piece_color
            THEN append_move(list, col, row, capture_col, capture_row,
                             IF capture_row = 0 \/ capture_row = 7 THEN PIECE_QUEEN ELSE -1)
            ELSE list

\* One iteration of the pawn's diagonal loop (delta_col = -1, then +1).
pawn_diagonal(state, piece_index, delta_col, list) ==
    LET piece_color == state.piece_color[piece_index]
        col == state.piece_col[piece_index]
        row == state.piece_row[piece_index]
        direction == IF piece_color = 0 THEN 1 ELSE -1
        capture_col == col + delta_col
        capture_row == row + direction
    IN IF ~is_inside(capture_col, capture_row) THEN list
       ELSE
         LET target_index == state.board[capture_row][capture_col]
         IN IF target_index # -1 /\ state.alive[target_index] # 0
                /\ state.piece_color[target_index] # piece_color
            THEN append_move(list, col, row, capture_col, capture_row,
                             IF capture_row = 0 \/ capture_row = 7 THEN PIECE_QUEEN ELSE -1)
            ELSE IF /\ state.en_passant_target_col = capture_col
                    /\ state.en_passant_target_row = capture_row
                    /\ state.board[capture_row][capture_col] = -1
                    /\ is_inside(state.en_passant_capture_col, state.en_passant_capture_row)
                 THEN LET capture_index ==
                            state.board[state.en_passant_capture_row][state.en_passant_capture_col]
                      IN IF /\ capture_index # -1
                            /\ state.alive[capture_index] # 0
                            /\ state.piece_type[capture_index] = PIECE_PAWN
                            /\ state.piece_color[capture_index] # piece_color
                            /\ state.en_passant_capture_col = capture_col
                            /\ state.en_passant_capture_row = row
                         THEN append_move(list, col, row, capture_col, capture_row, -1)
                         ELSE list
                 ELSE list

pawn_moves(state, piece_index, list) ==
    LET piece_color == state.piece_color[piece_index]
        col == state.piece_col[piece_index]
        row == state.piece_row[piece_index]
        direction == IF piece_color = 0 THEN 1 ELSE -1
        one_forward == row + direction
        two_forward == row + (2 * direction)
        pushes ==
            IF is_inside(col, one_forward) /\ state.board[one_forward][col] = -1
            THEN LET single == append_move(list, col, row, col, one_forward,
                                   IF one_forward = 0 \/ one_forward = 7 THEN PIECE_QUEEN ELSE -1)
                 IN IF /\ state.piece_moved[piece_index] = 0
                       /\ is_inside(col, two_forward)
                       /\ state.board[two_forward][col] = -1
                    THEN append_move(single, col, row, col, two_forward, -1)
                    ELSE single
            ELSE list
    IN pawn_diagonal(state, piece_index, 1, pawn_diagonal(state, piece_index, -1, pushes))

knight_offsets ==
    << <<-2, -1>>, <<-2, 1>>, <<-1, -2>>, <<-1, 2>>,
       <<1, -2>>, <<1, 2>>, <<2, -1>>, <<2, 1>> >>

bishop_dirs == << <<-1, -1>>, <<-1, 1>>, <<1, -1>>, <<1, 1>> >>
rook_dirs == << <<-1, 0>>, <<1, 0>>, <<0, -1>>, <<0, 1>> >>

\* A step move (knight jump or king step) to (to_col, to_row).
step_move(state, piece_index, to_col, to_row, list) ==
    LET piece_color == state.piece_color[piece_index]
        col == state.piece_col[piece_index]
        row == state.piece_row[piece_index]
    IN IF ~is_inside(to_col, to_row) THEN list
       ELSE LET target_index == state.board[to_row][to_col]
            IN IF target_index = -1 \/ state.piece_color[target_index] # piece_color
               THEN append_move(list, col, row, to_col, to_row, -1)
               ELSE list

RECURSIVE knight_moves(_, _, _, _)
knight_moves(state, piece_index, i, list) ==
    IF i > 8 THEN list
    ELSE LET added == step_move(state, piece_index,
                          state.piece_col[piece_index] + knight_offsets[i][1],
                          state.piece_row[piece_index] + knight_offsets[i][2], list)
         IN then(added, knight_moves(state, piece_index, i + 1, added))

\* The while loop walking one ray from (to_col, to_row) in direction (d_col, d_row).
RECURSIVE slide_ray(_, _, _, _, _, _, _)
slide_ray(state, piece_index, to_col, to_row, d_col, d_row, list) ==
    IF ~is_inside(to_col, to_row) THEN list
    ELSE
      LET piece_color == state.piece_color[piece_index]
          col == state.piece_col[piece_index]
          row == state.piece_row[piece_index]
          target_index == state.board[to_row][to_col]
      IN IF target_index = -1
         THEN LET added == append_move(list, col, row, to_col, to_row, -1)
              IN then(added, slide_ray(state, piece_index, to_col + d_col, to_row + d_row,
                                       d_col, d_row, added))
         ELSE IF state.piece_color[target_index] # piece_color
              THEN append_move(list, col, row, to_col, to_row, -1)
              ELSE list

RECURSIVE slide_moves(_, _, _, _, _)
slide_moves(state, piece_index, dirs, i, list) ==
    IF i > 4 THEN list
    ELSE LET added == slide_ray(state, piece_index,
                          state.piece_col[piece_index] + dirs[i][1],
                          state.piece_row[piece_index] + dirs[i][2],
                          dirs[i][1], dirs[i][2], list)
         IN then(added, slide_moves(state, piece_index, dirs, i + 1, added))

\* The king's double loop: d_col outer, d_row inner, both -1..1; k enumerates it.
RECURSIVE king_steps(_, _, _, _)
king_steps(state, piece_index, k, list) ==
    IF k > 8 THEN list
    ELSE LET d_col == (k \div 3) - 1
             d_row == (k % 3) - 1
             added == IF d_col = 0 /\ d_row = 0 THEN list
                      ELSE step_move(state, piece_index,
                                     state.piece_col[piece_index] + d_col,
                                     state.piece_row[piece_index] + d_row, list)
         IN then(added, king_steps(state, piece_index, k + 1, added))

\* Seeded fault: castling does not ask whether the rook has moved.
castling_moves_any_rook(state, piece_index, list) ==
    LET piece_color == state.piece_color[piece_index]
        home_row == IF piece_color = 0 THEN 0 ELSE 7
        ready(corner) ==
            /\ state.board[home_row][corner] # -1
            /\ state.piece_type[state.board[home_row][corner]] = PIECE_ROOK
            /\ state.piece_color[state.board[home_row][corner]] = piece_color
        kingside ==
            IF ready(7) /\ state.board[home_row][5] = -1 /\ state.board[home_row][6] = -1
            THEN append_move(list, 4, home_row, 6, home_row, -1)
            ELSE list
    IN IF state.piece_moved[piece_index] # 0 THEN list
       ELSE IF ~(state.piece_col[piece_index] = 4 /\ state.piece_row[piece_index] = home_row)
       THEN list
       ELSE IF /\ ready(0)
               /\ \A col \in 1..3 : state.board[home_row][col] = -1
            THEN append_move(kingside, 4, home_row, 2, home_row, -1)
            ELSE kingside

\* Castling (lines 386-416): kingside first, then queenside.
castling_moves(state, piece_index, list) ==
    LET piece_color == state.piece_color[piece_index]
        col == state.piece_col[piece_index]
        row == state.piece_row[piece_index]
        home_row == IF piece_color = 0 THEN 0 ELSE 7
    IN IF state.piece_moved[piece_index] # 0 THEN list
       ELSE IF ~(col = 4 /\ row = home_row) THEN list
       ELSE
         LET kingside_rook == state.board[home_row][7]
             queenside_rook == state.board[home_row][0]
             kingside ==
               IF /\ kingside_rook # -1
                  /\ state.alive[kingside_rook] # 0
                  /\ state.piece_type[kingside_rook] = PIECE_ROOK
                  /\ state.piece_color[kingside_rook] = piece_color
                  /\ state.piece_moved[kingside_rook] = 0
                  /\ state.board[home_row][5] = -1
                  /\ state.board[home_row][6] = -1
               THEN append_move(list, 4, home_row, 6, home_row, -1)
               ELSE list
         IN IF /\ queenside_rook # -1
               /\ state.alive[queenside_rook] # 0
               /\ state.piece_type[queenside_rook] = PIECE_ROOK
               /\ state.piece_color[queenside_rook] = piece_color
               /\ state.piece_moved[queenside_rook] = 0
               /\ state.board[home_row][1] = -1
               /\ state.board[home_row][2] = -1
               /\ state.board[home_row][3] = -1
            THEN append_move(kingside, 4, home_row, 2, home_row, -1)
            ELSE kingside

generate_moves_for_piece(state, piece_index, list) ==
    IF state.alive[piece_index] = 0 THEN list
    ELSE
      LET piece_type == state.piece_type[piece_index]
      IN IF piece_type = PIECE_PAWN THEN pawn_moves(state, piece_index, list)
         ELSE IF piece_type = PIECE_KNIGHT THEN knight_moves(state, piece_index, 1, list)
         ELSE IF piece_type = PIECE_BISHOP \/ piece_type = PIECE_ROOK \/ piece_type = PIECE_QUEEN
              THEN LET diagonal ==
                         IF piece_type = PIECE_BISHOP \/ piece_type = PIECE_QUEEN
                         THEN slide_moves(state, piece_index, bishop_dirs, 1, list)
                         ELSE list
                   IN IF piece_type = PIECE_ROOK \/ piece_type = PIECE_QUEEN
                      THEN slide_moves(state, piece_index, rook_dirs, 1, diagonal)
                      ELSE diagonal
         ELSE IF piece_type = PIECE_KING
              THEN castling_moves(state, piece_index, king_steps(state, piece_index, 0, list))
         ELSE list

RECURSIVE generate_from(_, _, _, _)
generate_from(state, color, i, list) ==
    IF i >= state.piece_count THEN list
    ELSE LET added == IF state.alive[i] = 0 \/ state.piece_color[i] # color THEN list
                      ELSE generate_moves_for_piece(state, i, list)
         IN then(added, generate_from(state, color, i + 1, added))

generate_legal_moves_for_color(state, color) == generate_from(state, color, 0, <<>>)

----------------------------------------------------------------------------
(* Move applier *)

\* Seeded fault: the castling rook is carried but not flagged as moved.
castle_rook_unflagged(state, move) ==
    LET rook_col == IF move.to_col > move.from_col THEN 7 ELSE 0
        rook_to == IF move.to_col > move.from_col THEN 5 ELSE 3
        rook_index == state.board[move.from_row][rook_col]
    IN IF rook_index # -1 /\ state.alive[rook_index] # 0
          /\ state.piece_type[rook_index] = PIECE_ROOK
       THEN [state EXCEPT !.board[move.from_row][rook_col] = -1,
                          !.board[move.from_row][rook_to] = rook_index,
                          !.piece_col[rook_index] = rook_to,
                          !.piece_row[rook_index] = move.from_row]
       ELSE state

\* The rook transit of a castling king move, after the king has been placed.
castle_rook(state, move) ==
    LET home_row == move.from_row
        kingside == move.to_col > move.from_col
        rook_col == IF kingside THEN 7 ELSE 0
        rook_to == IF kingside THEN 5 ELSE 3
        rook_index == state.board[home_row][rook_col]
    IN IF rook_index # -1 /\ state.alive[rook_index] # 0
          /\ state.piece_type[rook_index] = PIECE_ROOK
       THEN [state EXCEPT !.board[home_row][rook_col] = -1,
                          !.board[home_row][rook_to] = rook_index,
                          !.piece_col[rook_index] = rook_to,
                          !.piece_row[rook_index] = home_row,
                          !.piece_moved[rook_index] = 1]
       ELSE state

\* Seeded fault: a pawn with no promotion kind given stays a pawn.
promoted_type_unset(move) ==
    IF move.promotion_type >= PIECE_PAWN THEN move.promotion_type ELSE PIECE_PAWN

\* Seeded fault: a pawn landing on row 0 or 7 becomes a queen whatever the
\* move's promotion field.
promoted_type_queen(move) == PIECE_QUEEN

\* The kind a pawn landing on row 0 or 7 takes (line 482).
promoted_type(move) ==
    IF move.promotion_type >= PIECE_PAWN THEN move.promotion_type ELSE PIECE_QUEEN

\* The least and the greatest value of a C int of 32 bits.
INT_MIN == (-2147483647) - 1
INT_MAX == 2147483647

\* The status recorded for a step that an int overflow stopped (the increment of
\* line 524 or the subtraction of line 1124, in a build that traps): it never
\* returned. The record of such a call has op = "stopped".
NO_RETURN == -1

\* clock + 1 as line 524 computes it in int. For clock = INT_MAX the increment
\* overflows, which C leaves undefined: this is the outcome of a build that
\* wraps (two's complement: INT_MIN); a build that traps stops the process at
\* the increment (apply_traps).
clock_plus_one(clock) == IF clock = INT_MAX THEN INT_MIN ELSE clock + 1

\* Seeded fault: only a pawn move resets the clock.
next_halfmove_clock_pawn_only(clock, is_pawn_move, is_capture) ==
    IF is_pawn_move THEN 0 ELSE clock_plus_one(clock)

\* The halfmove clock after a move (lines 521-525).
next_halfmove_clock(clock, is_pawn_move, is_capture) ==
    IF is_pawn_move \/ is_capture THEN 0 ELSE clock_plus_one(clock)

\* Seeded fault: every pawn push opens a window.
next_en_passant_any_push(piece_type, move) ==
    IF piece_type = PIECE_PAWN /\ move.from_col = move.to_col
    THEN [target_col |-> move.from_col,
          target_row |-> (move.from_row + move.to_row) \div 2,
          capture_col |-> move.to_col,
          capture_row |-> move.to_row]
    ELSE [target_col |-> -1, target_row |-> -1, capture_col |-> -1, capture_row |-> -1]

\* The en-passant window after a move (lines 510-519).
next_en_passant(piece_type, move) ==
    IF piece_type = PIECE_PAWN
       /\ (move.to_row - move.from_row = 2 \/ move.to_row - move.from_row = -2)
    THEN [target_col |-> move.from_col,
          target_row |-> (move.from_row + move.to_row) \div 2,
          capture_col |-> move.to_col,
          capture_row |-> move.to_row]
    ELSE [target_col |-> -1, target_row |-> -1, capture_col |-> -1, capture_row |-> -1]

\* Seeded fault: a king that moves keeps its unmoved flag.
mark_moved_except_king(state, piece_index) ==
    IF state.piece_type[piece_index] = PIECE_KING THEN state
    ELSE [state EXCEPT !.piece_moved[piece_index] = 1]

\* Seeded fault: moving a piece flips its moved flag.
mark_moved_flipped(state, piece_index) ==
    [state EXCEPT !.piece_moved[piece_index] = IF @ = 0 THEN 1 ELSE 0]

\* The moving piece is flagged as moved (line 508).
mark_moved(state, piece_index) == [state EXCEPT !.piece_moved[piece_index] = 1]

\* Lines 476-527: the part of apply_move after the capture has been settled.
\* state is the state with the captured piece (if any) removed; piece_type and
\* piece_color were read before any change.
place_piece(state, move, piece_index, piece_type, is_capture) ==
    LET is_pawn_move == piece_type = PIECE_PAWN
        placed == [state EXCEPT !.board[move.from_row][move.from_col] = -1,
                                !.board[move.to_row][move.to_col] = piece_index,
                                !.piece_col[piece_index] = move.to_col,
                                !.piece_row[piece_index] = move.to_row]
        promoted == IF is_pawn_move /\ (move.to_row = 0 \/ move.to_row = 7)
                    THEN [placed EXCEPT !.piece_type[piece_index] = promoted_type(move)]
                    ELSE placed
        castled == IF piece_type = PIECE_KING
                      /\ (move.to_col - move.from_col = 2 \/ move.to_col - move.from_col = -2)
                   THEN castle_rook(promoted, move)
                   ELSE promoted
        window == next_en_passant(piece_type, move)
    IN [mark_moved(castled, piece_index) EXCEPT
                       !.en_passant_target_col = window.target_col,
                       !.en_passant_target_row = window.target_row,
                       !.en_passant_capture_col = window.capture_col,
                       !.en_passant_capture_row = window.capture_row,
                       !.halfmove_clock = next_halfmove_clock(@, is_pawn_move, is_capture)]

\* Seeded fault: the captured piece leaves the piece list only.
remove_piece_keeps_square(state, index, col, row) ==
    [state EXCEPT !.alive[index] = 0]

\* A captured piece leaves the piece list and the board (lines 464-465 for en
\* passant, lines 471-472 for a capture on the destination square).
remove_piece(state, index, col, row) ==
    [state EXCEPT !.alive[index] = 0, !.board[row][col] = -1]

\* apply_move on a copy of state: [ok |-> its return value, state |-> the copy after it].
apply_move(state, move) ==
    IF ~is_inside(move.from_col, move.from_row) \/ ~is_inside(move.to_col, move.to_row)
    THEN [ok |-> 0, state |-> state]
    ELSE
      LET piece_index == state.board[move.from_row][move.from_col]
      IN IF piece_index = -1 THEN [ok |-> 0, state |-> state]
         ELSE IF state.alive[piece_index] = 0 THEN [ok |-> 0, state |-> state]
         ELSE
           LET piece_type == state.piece_type[piece_index]
               piece_color == state.piece_color[piece_index]
               target_index == state.board[move.to_row][move.to_col]
               is_pawn_move == piece_type = PIECE_PAWN
               is_en_passant_capture ==
                   /\ is_pawn_move
                   /\ target_index = -1
                   /\ move.from_col # move.to_col
                   /\ state.en_passant_target_col = move.to_col
                   /\ state.en_passant_target_row = move.to_row
                   /\ is_inside(state.en_passant_capture_col, state.en_passant_capture_row)
           IN IF is_en_passant_capture
              THEN LET capture_index ==
                         state.board[state.en_passant_capture_row][state.en_passant_capture_col]
                   IN IF capture_index = -1 THEN [ok |-> 0, state |-> state]
                      ELSE IF \/ state.alive[capture_index] = 0
                              \/ state.piece_type[capture_index] # PIECE_PAWN
                              \/ state.piece_color[capture_index] = piece_color
                           THEN [ok |-> 0, state |-> state]
                      ELSE [ok |-> 1,
                            state |-> place_piece(
                               remove_piece(state, capture_index,
                                   state.en_passant_capture_col, state.en_passant_capture_row),
                               move, piece_index, piece_type, TRUE)]
              ELSE IF target_index # -1
              THEN IF state.alive[target_index] = 0 \/ state.piece_color[target_index] = piece_color
                   THEN [ok |-> 0, state |-> state]
                   ELSE [ok |-> 1,
                         state |-> place_piece(
                            remove_piece(state, target_index, move.to_col, move.to_row),
                            move, piece_index, piece_type, TRUE)]
              ELSE [ok |-> 1, state |-> place_piece(state, move, piece_index, piece_type, FALSE)]

\* apply_move(state, move) reaches the increment of line 524 with the clock at
\* INT_MAX: the move is accepted, no pawn moved and nothing was captured. A build
\* that traps on int overflow stops the process there; apply_move above gives
\* what a build that wraps returns.
apply_traps(state, move) ==
    /\ state.halfmove_clock = INT_MAX
    /\ apply_move(state, move).ok = 1
    /\ apply_move(state, move).state.halfmove_clock # 0

\* apply_move(state, move) in a build with the given overflow outcome: where the
\* increment of line 524 overflows and the build traps, the process is stopped
\* inside the call (ok = NO_RETURN, the caller's state as it was).
apply_move_in(state, move, overflow) ==
    IF overflow = "traps" /\ apply_traps(state, move)
    THEN [ok |-> NO_RETURN, state |-> state]
    ELSE apply_move(state, move)

----------------------------------------------------------------------------
(* Evaluator *)

\* The first loop of is_backward_pawn_state: a friendly pawn on an adjacent file
\* that makes the function return 0.
has_pawn_support(state, pawn_index) ==
    LET pawn_color == state.piece_color[pawn_index]
        pawn_col == state.piece_col[pawn_index]
        pawn_row == state.piece_row[pawn_index]
    IN \E delta \in {-1, 1} :
         LET adjacent_col == pawn_col + delta
         IN /\ ~(adjacent_col < 0 \/ adjacent_col > 7)
            /\ \E i \in 0..(state.piece_count - 1) :
                 /\ state.alive[i] # 0
                 /\ state.piece_type[i] = PIECE_PAWN
                 /\ state.piece_color[i] = pawn_color
                 /\ state.piece_col[i] = adjacent_col
                 /\ \/ (pawn_color = 0 /\ state.piece_row[i] >= pawn_row)
                    \/ (pawn_color = 1 /\ state.piece_row[i] <= pawn_row)

is_backward_pawn_state(state, pawn_index) ==
    IF state.alive[pawn_index] = 0 \/ state.piece_type[pawn_index] # PIECE_PAWN THEN 0
    ELSE
      LET pawn_color == state.piece_color[pawn_index]
          pawn_col == state.piece_col[pawn_index]
          pawn_row == state.piece_row[pawn_index]
          direction == IF pawn_color = 0 THEN 1 ELSE -1
          forward_row == pawn_row + direction
          opposing_color == opponent_color(pawn_color)
      IN IF ~is_inside(pawn_col, forward_row) THEN 0
         ELSE IF has_pawn_support(state, pawn_index) THEN 0
         ELSE IF \E i \in 0..(state.piece_count - 1) :
                   /\ state.alive[i] # 0
                   /\ state.piece_type[i] = PIECE_PAWN
                   /\ state.piece_color[i] = opposing_color
                   /\ state.piece_row[i] + (IF opposing_color = 0 THEN 1 ELSE -1) = forward_row
                   /\ (state.piece_col[i] - 1 = pawn_col \/ state.piece_col[i] + 1 = pawn_col)
              THEN 1
         ELSE 0

\* The alive bishops of a color, by piece index.
bishops_of(state, color) ==
    {i \in 0..(state.piece_count - 1) :
        state.alive[i] # 0 /\ state.piece_type[i] = PIECE_BISHOP
        /\ (IF color = 0 THEN state.piece_color[i] = 0 ELSE state.piece_color[i] # 0)}

has_opposite_color_bishops_state(state) ==
    IF Cardinality(bishops_of(state, 0)) # 1 \/ Cardinality(bishops_of(state, 1)) # 1 THEN 0
    ELSE
      LET white_bishop_index == CHOOSE i \in bishops_of(state, 0) : TRUE
          black_bishop_index == CHOOSE i \in bishops_of(state, 1) : TRUE
          white_square_color ==
              (state.piece_col[white_bishop_index] + state.piece_row[white_bishop_index]) % 2
          black_square_color ==
              (state.piece_col[black_bishop_index] + state.piece_row[black_bishop_index]) % 2
      IN IF white_square_color # black_square_color THEN 1 ELSE 0

\* The inner loop of control_score: the square weights of entries lo..hi of a
\* piece's moves, summed by halves.
RECURSIVE controlled_sum(_, _, _, _, _)
controlled_sum(moves, piece_type, params, lo, hi) ==
    IF lo > hi THEN 0
    ELSE IF lo = hi
         THEN square_weight_for_piece(piece_type, moves[lo].to_col, moves[lo].to_row,
                  params.position_multipliers, params.has_position_multipliers)
    ELSE controlled_sum(moves, piece_type, params, lo, (lo + hi) \div 2)
         + controlled_sum(moves, piece_type, params, ((lo + hi) \div 2) + 1, hi)

RECURSIVE control_from(_, _, _, _)
control_from(state, perspective_color, params, i) ==
    IF i >= state.piece_count THEN 0
    ELSE IF state.alive[i] = 0 THEN control_from(state, perspective_color, params, i + 1)
    ELSE
      LET moves == generate_moves_for_piece(state, i, <<>>)
          controlled == controlled_sum(moves, state.piece_type[i], params, 1, Len(moves))
      IN (IF state.piece_color[i] = perspective_color THEN controlled ELSE -controlled)
         + control_from(state, perspective_color, params, i + 1)

\* Seeded fault: control is always counted from WHITE's side.
control_score_white(state, perspective_color, params) ==
    control_from(state, 0, params, 0)

control_score(state, perspective_color, params) ==
    control_from(state, perspective_color, params, 0)

\* piece_score of piece i before the sign: lines 667-689.
piece_score_of(state, i, params) ==
    LET piece_type == state.piece_type[i]
        piece_color == state.piece_color[i]
        material_score == params.piece_values[piece_type]
        ranked ==
          IF piece_type = PIECE_PAWN /\ params.has_pawn_rank_values # 0
             /\ ~params.pawn_rank_values_null
          THEN LET pawn_rank == IF piece_color = 0 THEN state.piece_row[i] + 1
                                ELSE 8 - state.piece_row[i]
                   rank_score == params.pawn_rank_values[pawn_rank]
               IN IF rank_score > material_score THEN rank_score ELSE material_score
          ELSE material_score
        backward ==
          IF piece_type = PIECE_PAWN /\ params.has_backward_pawn_value # 0
             /\ is_backward_pawn_state(state, i) # 0
             /\ params.backward_pawn_value < ranked
          THEN params.backward_pawn_value
          ELSE ranked
    IN backward * square_weight_for_piece(piece_type, state.piece_col[i], state.piece_row[i],
                      params.position_multipliers, params.has_position_multipliers)

\* Seeded fault: the material component adds up the weighted piece scores.
RECURSIVE evaluate_from_weighted(_, _, _, _, _)
evaluate_from_weighted(state, perspective_color, params, i, score) ==
    IF i >= state.piece_count THEN score
    ELSE IF state.alive[i] = 0
         THEN evaluate_from_weighted(state, perspective_color, params, i + 1, score)
    ELSE evaluate_from_weighted(state, perspective_color, params, i + 1,
            IF state.piece_color[i] = perspective_color
            THEN MkScore(score.material + piece_score_of(state, i, params), score.heuristic)
            ELSE MkScore(score.material - piece_score_of(state, i, params), score.heuristic))

\* The loop of evaluate_state over the pieces from index i, accumulating into score.
RECURSIVE evaluate_from(_, _, _, _, _)
evaluate_from(state, perspective_color, params, i, score) ==
    IF i >= state.piece_count THEN score
    ELSE IF state.alive[i] = 0 THEN evaluate_from(state, perspective_color, params, i + 1, score)
    ELSE
      LET material_score == params.piece_values[state.piece_type[i]]
          heuristic_score == piece_score_of(state, i, params) - material_score
      IN evaluate_from(state, perspective_color, params, i + 1,
            IF state.piece_color[i] = perspective_color
            THEN MkScore(score.material + material_score, score.heuristic + heuristic_score)
            ELSE MkScore(score.material - material_score, score.heuristic - heuristic_score))

evaluate_state(state, perspective_color, params) ==
    LET pieces == evaluate_from(state, perspective_color, params, 0, MkScore(0, 0))
        controlled ==
          IF params.control_weight # 0
          THEN MkScore(pieces.material,
                       pieces.heuristic
                         + params.control_weight * control_score(state, perspective_color, params))
          ELSE pieces
    IN IF params.has_opposite_bishop_draw_factor # 0 /\ has_opposite_color_bishops_state(state) # 0
       THEN MkScore(controlled.material, controlled.heuristic * params.opposite_bishop_draw_factor)
       ELSE controlled

----------------------------------------------------------------------------
(* Game status *)

king_found(state, color) ==
    \E i \in 0..(state.piece_count - 1) :
        /\ state.alive[i] # 0
        /\ state.piece_type[i] = PIECE_KING
        /\ (IF color = 0 THEN state.piece_color[i] = 0 ELSE state.piece_color[i] # 0)

\* [status, winner] as get_game_status_state returns them.
\* get_game_status_state with the clock's draw one ply late.
get_game_status_state_late(state, active_color) ==
    IF ~king_found(state, 0) /\ ~king_found(state, 1)
    THEN [status |-> STATUS_DRAW, winner |-> -1]
    ELSE IF ~king_found(state, 0) THEN [status |-> STATUS_WIN, winner |-> 1]
    ELSE IF ~king_found(state, 1) THEN [status |-> STATUS_WIN, winner |-> 0]
    ELSE IF state.halfmove_clock > 100 THEN [status |-> STATUS_DRAW, winner |-> -1]
    ELSE IF Len(generate_legal_moves_for_color(state, active_color)) = 0
         THEN [status |-> STATUS_DRAW, winner |-> -1]
    ELSE [status |-> STATUS_IN_PROGRESS, winner |-> -1]

get_game_status_state(state, active_color) ==
    IF ~king_found(state, 0) /\ ~king_found(state, 1)
    THEN [status |-> STATUS_DRAW, winner |-> -1]
    ELSE IF ~king_found(state, 0) THEN [status |-> STATUS_WIN, winner |-> 1]
    ELSE IF ~king_found(state, 1) THEN [status |-> STATUS_WIN, winner |-> 0]
    ELSE IF state.halfmove_clock >= 100 THEN [status |-> STATUS_DRAW, winner |-> -1]
    ELSE IF Len(generate_legal_moves_for_color(state, active_color)) = 0
         THEN [status |-> STATUS_DRAW, winner |-> -1]
    ELSE [status |-> STATUS_IN_PROGRESS, winner |-> -1]

----------------------------------------------------------------------------
(* Position hash: uint64_t arithmetic on four 16-bit limbs, least significant first *)

LIMB == 65536

\* (uint64_t)v of an int v, sign-extended when v is negative.
to_u64(v) ==
    IF v >= 0 THEN << v % LIMB, v \div LIMB, 0, 0 >>
    ELSE LET m == -(v + 1)
         IN << (LIMB - 1) - (m % LIMB), (LIMB - 1) - (m \div LIMB), LIMB - 1, LIMB - 1 >>

\* a ^ b, a | b and a & b on the low n bits of two non-negative integers.
RECURSIVE bit_xor(_, _, _)
bit_xor(a, b, n) ==
    IF n = 0 THEN 0
    ELSE ((a + b) % 2) + 2 * bit_xor(a \div 2, b \div 2, n - 1)

RECURSIVE bit_or(_, _)
bit_or(a, b) ==
    IF a = 0 THEN b
    ELSE IF b = 0 THEN a
    ELSE (IF a % 2 = 1 \/ b % 2 = 1 THEN 1 ELSE 0) + 2 * bit_or(a \div 2, b \div 2)

RECURSIVE bit_and(_, _)
bit_and(a, b) ==
    IF a = 0 \/ b = 0 THEN 0
    ELSE (IF a % 2 = 1 /\ b % 2 = 1 THEN 1 ELSE 0) + 2 * bit_and(a \div 2, b \div 2)

\* The exclusive or of two bytes, tabulated.
xor_table == [a \in 0..255 |-> [b \in 0..255 |-> bit_xor(a, b, 8)]]

xor_limb(a, b) == xor_table[a % 256][b % 256] + 256 * xor_table[a \div 256][b \div 256]

u64_xor(a, b) == << xor_limb(a[1], b[1]), xor_limb(a[2], b[2]),
                    xor_limb(a[3], b[3]), xor_limb(a[4], b[4]) >>

\* a + b + c + d modulo 2^64.
u64_add4(a, b, c, d) ==
    LET s1 == a[1] + b[1] + c[1] + d[1]
        s2 == a[2] + b[2] + c[2] + d[2] + (s1 \div LIMB)
        s3 == a[3] + b[3] + c[3] + d[3] + (s2 \div LIMB)
        s4 == a[4] + b[4] + c[4] + d[4] + (s3 \div LIMB)
    IN << s1 % LIMB, s2 % LIMB, s3 % LIMB, s4 % LIMB >>

\* hash << 6 and hash >> 2.
u64_shl6(a) ==
    << (a[1] * 64) % LIMB,
       ((a[2] * 64) % LIMB) + (a[1] \div 1024),
       ((a[3] * 64) % LIMB) + (a[2] \div 1024),
       ((a[4] * 64) % LIMB) + (a[3] \div 1024) >>

u64_shr2(a) ==
    << (a[1] \div 4) + ((a[2] % 4) * 16384),
       (a[2] \div 4) + ((a[3] % 4) * 16384),
       (a[3] \div 4) + ((a[4] % 4) * 16384),
       a[4] \div 4 >>

\* 0x9e3779b97f4a7c15
HASH_GOLDEN == << 31765, 32586, 31161, 40503 >>

\* 1469598103934665603 = 0x14650fb0739d0383
HASH_BASIS == << 899, 29597, 4016, 5221 >>

hash_mix(hash, value) ==
    u64_xor(hash, u64_add4(value, HASH_GOLDEN, u64_shl6(hash), u64_shr2(hash)))

\* The word mixed in for square (col, row).
square_word(state, col, row) ==
    LET piece_index == state.board[row][col]
    IN IF piece_index = -1 THEN to_u64(0)
       ELSE IF state.alive[piece_index] = 0 THEN to_u64(0)
       ELSE LET piece_bits ==
                  bit_or(state.piece_type[piece_index],
                    bit_or(state.piece_color[piece_index] * 8,
                      bit_or((IF state.piece_moved[piece_index] # 0 THEN 1 ELSE 0) * 16,
                        bit_or(col * 256, row * 65536))))
            IN to_u64(piece_bits + 1)

\* The inner loop of hash_state (lines 720-736): the eight squares of a row, col =
\* 0..7. The tuple has its entries computed in order; the last is the row's hash.
hash_row(state, row, hash) ==
    LET c0 == hash_mix(hash, square_word(state, 0, row))
        c1 == hash_mix(c0, square_word(state, 1, row))
        c2 == hash_mix(c1, square_word(state, 2, row))
        c3 == hash_mix(c2, square_word(state, 3, row))
        c4 == hash_mix(c3, square_word(state, 4, row))
        c5 == hash_mix(c4, square_word(state, 5, row))
        c6 == hash_mix(c5, square_word(state, 6, row))
        c7 == hash_mix(c6, square_word(state, 7, row))
    IN << c0, c1, c2, c3, c4, c5, c6, c7 >>[8]

\* The outer loop of hash_state (lines 719-737) over rows lo..hi in order, taken
\* by halves: the first half is computed, then the second from its hash.
RECURSIVE hash_squares(_, _, _, _)
hash_squares(state, lo, hi, hash) ==
    IF lo = hi THEN hash_row(state, lo, hash)
    ELSE LET first == hash_squares(state, lo, (lo + hi) \div 2, hash)
         IN << first, hash_squares(state, ((lo + hi) \div 2) + 1, hi, first) >>[2]

\* Lines 739-743: the four words mixed in after the squares.
hash_tail(state, active_color, remaining_plies, squares) ==
    LET en_passant_bits ==
            bit_or(state.en_passant_target_col + 1,
              bit_or((state.en_passant_target_row + 1) * 16,
                bit_or((state.en_passant_capture_col + 1) * 256,
                       (state.en_passant_capture_row + 1) * 4096)))
        h1 == hash_mix(squares, to_u64(en_passant_bits))
        h2 == hash_mix(h1, to_u64(state.halfmove_clock))
        h3 == hash_mix(h2, to_u64(active_color))
        h4 == hash_mix(h3, to_u64(remaining_plies))
    IN << squares, h1, h2, h3, h4 >>[5]

hash_state(state, active_color, remaining_plies) ==
    hash_tail(state, active_color, remaining_plies, hash_squares(state, 0, 7, HASH_BASIS))

----------------------------------------------------------------------------
(* Transposition cache *)

\* A cache handle: ptr_null for a NULL handle, else capacity zeroed entries (calloc).
NullCache == [ptr_null |-> TRUE, capacity |-> 0, entries |-> << >>]

ZeroEntry == [key |-> to_u64(0), remaining_plies |-> 0, active_color |-> 0,
              material |-> 0, heuristic |-> 0, valid |-> 0]

FreshCache(capacity) ==
    [ptr_null |-> FALSE, capacity |-> capacity,
     entries |-> [i \in 0..(capacity - 1) |-> ZeroEntry]]

\* sizeof(CacheEntry): 8 + 4 + 4 + 8 + 8 + 1 bytes, padded to the alignment of 8.
SIZEOF_CACHE_ENTRY == 40

\* The first loop with the bound rounded up instead of down.
pow2_capacity_rounded_up(pow2_capacity, capacity) ==
    IF capacity <= 1 THEN 1
    ELSE IF capacity <= 2 THEN 2
    ELSE IF capacity <= 4 THEN 4
    ELSE IF capacity <= 8 THEN 8
    ELSE IF capacity <= 16 THEN 16
    ELSE 32

\* Lines 805-808: pow2_capacity doubled while it is at most capacity / 2.
RECURSIVE pow2_loop(_, _)
pow2_loop(pow2_capacity, capacity) ==
    IF pow2_capacity <= capacity \div 2 THEN pow2_loop(pow2_capacity * 2, capacity)
    ELSE pow2_capacity

\* Lines 810-818: calloc of pow2_capacity entries, halved after each failure;
\* failures is the number of calloc calls that return NULL before one succeeds.
RECURSIVE calloc_loop(_, _)
calloc_loop(pow2_capacity, failures) ==
    IF pow2_capacity >= 2
    THEN IF failures = 0 THEN FreshCache(pow2_capacity)
         ELSE calloc_loop(pow2_capacity \div 2, failures - 1)
    ELSE NullCache

\* Lines 794-822. handle_fails: the malloc of the SearchCache returns NULL.
create_search_cache_c(max_bytes, handle_fails, failures) ==
    IF max_bytes < SIZEOF_CACHE_ENTRY * 2 THEN NullCache
    ELSE IF handle_fails THEN NullCache
    ELSE calloc_loop(pow2_loop(1, max_bytes \div SIZEOF_CACHE_ENTRY), failures)

\* Lines 824-833. A NULL handle is returned at once. Otherwise the entries are
\* freed, entries and capacity are cleared (lines 829-831) and the handle itself
\* is freed (line 832): the host is left without a cache, and the only handle it
\* may pass from then on is NULL (a destroyed handle must not be reused).
destroy_search_cache_c(cache) ==
    IF cache.ptr_null THEN cache
    ELSE LET cleared == [cache EXCEPT !.entries = << >>, !.capacity = 0]
         IN [cleared EXCEPT !.ptr_null = TRUE]

\* key & (capacity - 1) (lines 757 and 784) on the limbs of the key: the mask
\* capacity - 1 is below 2^31 as the capacity is, so its two high limbs are 0.
cache_index(cache, key) ==
    bit_and(key[1], (cache.capacity - 1) % LIMB)
        + LIMB * bit_and(key[2], (cache.capacity - 1) \div LIMB)

\* The entry a store writes (lines 785-790); a score of sentinels keeps its mark.
MkEntry(key, active_color, remaining_plies, score) ==
    IF beyond(score) = 0
    THEN [key |-> key, remaining_plies |-> remaining_plies,
          active_color |-> active_color,
          material |-> score.material, heuristic |-> score.heuristic,
          valid |-> 1]
    ELSE [key |-> key, remaining_plies |-> remaining_plies,
          active_color |-> active_color,
          material |-> score.material, heuristic |-> score.heuristic,
          valid |-> 1, beyond |-> score.beyond]

\* The score a hit copies out of an entry (line 769).
entry_score(entry) ==
    IF beyond(entry) = 0 THEN MkScore(entry.material, entry.heuristic)
    ELSE SentinelScore(entry.beyond)

\* Seeded fault: a slot is returned without comparing its key.
cache_lookup_any_key(cache, key, active_color, remaining_plies) ==
    IF cache.ptr_null \/ cache.capacity = 0 THEN [hit |-> 0, score |-> draw_score]
    ELSE
      LET entry == cache.entries[cache_index(cache, key)]
      IN IF \/ entry.valid = 0
            \/ entry.active_color # active_color
            \/ entry.remaining_plies # remaining_plies
         THEN [hit |-> 0, score |-> draw_score]
         ELSE [hit |-> 1, score |-> entry_score(entry)]

cache_lookup(cache, key, active_color, remaining_plies) ==
    IF cache.ptr_null \/ cache.capacity = 0 THEN [hit |-> 0, score |-> draw_score]
    ELSE
      LET entry == cache.entries[cache_index(cache, key)]
      IN IF \/ entry.valid = 0
            \/ entry.key # key
            \/ entry.active_color # active_color
            \/ entry.remaining_plies # remaining_plies
         THEN [hit |-> 0, score |-> draw_score]
         ELSE [hit |-> 1, score |-> entry_score(entry)]

\* Seeded fault: a store leaves a bucket that already holds an entry.
cache_store_keeps_first(cache, key, active_color, remaining_plies, score) ==
    IF cache.ptr_null \/ cache.capacity = 0 THEN cache
    ELSE IF cache.entries[cache_index(cache, key)].valid # 0 THEN cache
    ELSE [cache EXCEPT !.entries[cache_index(cache, key)] =
             MkEntry(key, active_color, remaining_plies, score)]

cache_store(cache, key, active_color, remaining_plies, score) ==
    IF cache.ptr_null \/ cache.capacity = 0 THEN cache
    ELSE [cache EXCEPT !.entries[cache_index(cache, key)] =
             MkEntry(key, active_color, remaining_plies, score)]

----------------------------------------------------------------------------
(* Search driver *)

\* The analysis' record of the nodes visited by a call (a node is one call of
\* minimax_score_state): clock = the greatest halfmove clock of a visited state;
\* expanded_clock = the greatest halfmove clock of a state a move was applied to;
\* undrawn = visited states with both kings and a clock of 100 or more whose
\* score is not the draw score; depth = levels of nested calls; min_plies = the
\* least remaining_plies of a call; spent_expanded = nodes with remaining_plies
\* <= 0 whose moves were searched; skipped = generated moves apply_move refused.
NoneSeen ==
    [clock |-> -1, expanded_clock |-> -1, undrawn |-> 0, depth |-> 0,
     min_plies |-> INT_MAX, spent_expanded |-> 0, skipped |-> 0]

seen_both(a, b) ==
    [clock |-> IF a.clock > b.clock THEN a.clock ELSE b.clock,
     expanded_clock |-> IF a.expanded_clock > b.expanded_clock
                        THEN a.expanded_clock ELSE b.expanded_clock,
     undrawn |-> a.undrawn + b.undrawn,
     depth |-> IF a.depth > b.depth THEN a.depth ELSE b.depth,
     min_plies |-> IF a.min_plies < b.min_plies THEN a.min_plies ELSE b.min_plies,
     spent_expanded |-> a.spent_expanded + b.spent_expanded,
     skipped |-> a.skipped + b.skipped]

\* The record of a node whose moves are about to be searched.
seen_expanding(state, remaining_plies) ==
    [NoneSeen EXCEPT !.expanded_clock = state.halfmove_clock,
                     !.spent_expanded = IF remaining_plies <= 0 THEN 1 ELSE 0]

\* answer, with the node itself entered in its record.
seen_visit(state, remaining_plies, answer) ==
    [answer EXCEPT
       !.seen = [@ EXCEPT
          !.clock = IF @ > state.halfmove_clock THEN @ ELSE state.halfmove_clock,
          !.depth = @ + 1,
          !.min_plies = IF @ < remaining_plies THEN @ ELSE remaining_plies,
          !.undrawn = @ + (IF /\ state.halfmove_clock >= 100
                              /\ answer.score # draw_score
                              /\ king_found(state, 0)
                              /\ king_found(state, 1)
                           THEN 1 ELSE 0)]]

\* What a minimax call hands back: its score and the cache after it, with two
\* counters for the analysis: hits = cache hits taken in the call, stale = those
\* hits whose score is not the score the node computes without a cache.
\* seen is the record the analysis keeps of the nodes a call visited.
Answer(score, cache, hits, stale) ==
    [score |-> score, cache |-> cache, hits |-> hits, stale |-> stale, seen |-> NoneSeen]

RECURSIVE minimax_score_state(_, _, _, _, _, _)
RECURSIVE minimax_children(_, _, _, _, _, _, _)

\* The comparison of a child's score with best (lines 935-937 maximising, lines
\* 952-954 minimising); acc is the Answer so far, acc.score being best.
minimax_best(node, acc, current) ==
    LET better == IF node.active_color = node.perspective_color
                  THEN compare_score(current.score, acc.score) > 0
                  ELSE compare_score(current.score, acc.score) < 0
    IN [Answer(IF better THEN current.score ELSE acc.score, current.cache,
               acc.hits + current.hits, acc.stale + current.stale)
          EXCEPT !.seen = seen_both(acc.seen, current.seen)]

\* One iteration of the for loop over legal_moves (lines 929-938 maximising,
\* lines 946-955 minimising).
minimax_child(state, move, node, params, acc) ==
    LET child == apply_move(state, move)
    IN IF child.ok = 0 THEN [acc EXCEPT !.seen.skipped = @ + 1]
       ELSE minimax_best(node, acc,
              minimax_score_state(child.state, opponent_color(node.active_color),
                  node.perspective_color, node.remaining_plies - 1, params, acc.cache))

\* The for loop over entries lo..hi of legal_moves, in order, taken by halves.
minimax_children(state, moves, lo, hi, node, params, acc) ==
    IF lo > hi THEN acc
    ELSE IF lo = hi THEN minimax_child(state, moves[lo], node, params, acc)
    ELSE LET first == minimax_children(state, moves, lo, (lo + hi) \div 2, node, params, acc)
         IN IF first.hits >= 0
            THEN minimax_children(state, moves, ((lo + hi) \div 2) + 1, hi, node, params, first)
            ELSE first

\* The return of a node that was searched or evaluated: cache_store, then the score
\* (lines 902, 907, 912, 920, 939 and 956). done is the Answer of the node's own work.
minimax_store(key, active_color, remaining_plies, done) ==
    [Answer(done.score,
            cache_store(done.cache, key, active_color, remaining_plies, done.score),
            done.hits, done.stale)
       EXCEPT !.seen = done.seen]

\* Lines 916-957: the node's moves, maximising or minimising from the sentinel.
minimax_moves(state, active_color, perspective_color, remaining_plies, params, cache, legal_moves) ==
    IF Len(legal_moves) = 0 THEN Answer(draw_score, cache, 0, 0)
    ELSE minimax_children(state, legal_moves, 1, Len(legal_moves),
           [active_color |-> active_color, perspective_color |-> perspective_color,
            remaining_plies |-> remaining_plies],
           params,
           [Answer(IF active_color = perspective_color
                   THEN SentinelScore(-1)
                   ELSE SentinelScore(1),
                   cache, 0, 0)
              EXCEPT !.seen = seen_expanding(state, remaining_plies)])

\* minimax_search with the depth cutoff of line 910 ahead of the game status.
minimax_search_cutoff_first(state, active_color, perspective_color, remaining_plies, params, cache) ==
    IF remaining_plies <= 0
    THEN Answer(evaluate_state(state, perspective_color, params), cache, 0, 0)
    ELSE LET game == get_game_status_state(state, active_color)
         IN IF game.status = STATUS_WIN
            THEN Answer(score_for_winner(game.winner, perspective_color), cache, 0, 0)
            ELSE IF game.status = STATUS_DRAW THEN Answer(draw_score, cache, 0, 0)
            ELSE minimax_moves(state, active_color, perspective_color, remaining_plies,
                               params, cache,
                               generate_legal_moves_for_color(state, active_color))

\* Lines 898-957: the node's score when the cache did not answer.
minimax_search(state, active_color, perspective_color, remaining_plies, params, cache) ==
    LET game == get_game_status_state(state, active_color)
    IN IF game.status = STATUS_WIN
       THEN Answer(score_for_winner(game.winner, perspective_color), cache, 0, 0)
       ELSE IF game.status = STATUS_DRAW THEN Answer(draw_score, cache, 0, 0)
       ELSE IF remaining_plies <= 0
            THEN Answer(evaluate_state(state, perspective_color, params), cache, 0, 0)
       ELSE minimax_moves(state, active_color, perspective_color, remaining_plies, params,
                          cache, generate_legal_moves_for_color(state, active_color))

\* Lines 893-957, with the node's key in hand.
minimax_keyed(state, active_color, perspective_color, remaining_plies, params, cache, key) ==
    LET cached == cache_lookup(cache, key, active_color, remaining_plies)
    IN IF cached.hit = 1
       THEN Answer(cached.score, cache, 1,
                   IF minimax_score_state(state, active_color, perspective_color,
                          remaining_plies, params, NullCache).score # cached.score
                   THEN 1 ELSE 0)
       ELSE minimax_store(key, active_color, remaining_plies,
              minimax_search(state, active_color, perspective_color, remaining_plies,
                             params, cache))

minimax_score_state(state, active_color, perspective_color, remaining_plies, params, cache) ==
    seen_visit(state, remaining_plies,
        minimax_keyed(state, active_color, perspective_color, remaining_plies, params, cache,
                      hash_state(state, active_color, remaining_plies)))

----------------------------------------------------------------------------
(* Entry points *)

\* The four output slots as the host left them and as a call leaves them.
MkOut(from_col, from_row, to_col, to_row) ==
    [from_col |-> from_col, from_row |-> from_row, to_col |-> to_col, to_row |-> to_row]

\* The root loop of choose_best_move_c (lines 1118-1128) from entry i.  acc holds
\* best_score, best_index (0-based), the cache, the score minimax returned for each
\* root move so far (NoScore for a skipped one) and the hit counters.
NoScore == [skipped |-> TRUE]

\* Lines 1124-1127: the strict comparison that keeps the first greatest score.
root_best(i, acc, score) ==
    LET better == compare_score(score.score, acc.best_score) > 0
    IN [best_score |-> IF better THEN score.score ELSE acc.best_score,
        best_index |-> IF better THEN i - 1 ELSE acc.best_index,
        cache |-> score.cache,
        scores |-> Append(acc.scores, score.score),
        hits |-> acc.hits + score.hits,
        stale |-> acc.stale + score.stale,
        seen |-> seen_both(acc.seen, score.seen)]

\* plies - 1 as line 1124 computes it in int. For plies = INT_MIN the
\* subtraction overflows, which C leaves undefined: call.overflow is the outcome
\* of the build, "wraps" (two's complement: INT_MAX) or "traps" (the process is
\* stopped at the subtraction).
plies_minus_one(call) ==
    IF call.plies = INT_MIN THEN INT_MAX ELSE call.plies - 1

\* The loop of lines 1118-1128 reaches an int overflow and the build traps on
\* it: the subtraction of line 1124 with plies = INT_MIN, after an accepted
\* move, or the clock increment of line 524 inside apply_move (line 1120) with
\* the root's halfmove_clock = INT_MAX.
root_traps(call, root, legal_moves) ==
    /\ call.overflow = "traps"
    /\ \/ /\ call.plies = INT_MIN
          /\ \E i \in 1..Len(legal_moves) : apply_move(root, legal_moves[i]).ok = 1
       \/ /\ root.halfmove_clock = INT_MAX
          /\ \E i \in 1..Len(legal_moves) : apply_traps(root, legal_moves[i])

\* One iteration of the root loop, for entry i (1-based here, i - 1 in the code).
root_child(root, moves, i, call, acc) ==
    LET child == apply_move(root, moves[i])
    IN IF child.ok = 0 THEN [acc EXCEPT !.scores = Append(@, NoScore), !.seen.skipped = @ + 1]
       ELSE root_best(i, acc,
              minimax_score_state(child.state, opponent_color(call.active_color),
                  call.active_color, plies_minus_one(call), call.params, acc.cache))

\* The root loop over entries lo..hi, in order, taken by halves.
RECURSIVE root_children(_, _, _, _, _, _)
root_children(root, moves, lo, hi, call, acc) ==
    IF lo > hi THEN acc
    ELSE IF lo = hi THEN root_child(root, moves, lo, call, acc)
    ELSE LET first == root_children(root, moves, lo, (lo + hi) \div 2, call, acc)
         IN IF first.hits >= 0
            THEN root_children(root, moves, ((lo + hi) \div 2) + 1, hi, call, first)
            ELSE first

ChooseRequired ==
    {"piece_types", "piece_colors", "piece_cols", "piece_rows", "piece_moved",
     "piece_values", "out_from_col", "out_from_row", "out_to_col", "out_to_row"}

\* Seeded fault: a call that returns early clears the output slots.
early_return_clears(status, out, cache) ==
    [status |-> status, out |-> MkOut(-1, -1, -1, -1), cache |-> cache,
     moves |-> << >>, scores |-> << >>, best_index |-> 0, hits |-> 0, stale |-> 0,
     seen |-> NoneSeen]

\* A call that returns before the root loop.
early_return(status, out, cache) ==
    [status |-> status, out |-> out, cache |-> cache,
     moves |-> << >>, scores |-> << >>, best_index |-> 0, hits |-> 0, stale |-> 0,
     seen |-> NoneSeen]

\* Lines 1100-1134: the root loop and the write of the chosen move.
\* Lines 1130-1134: the write of entry best_index and the return of 1.
root_write(legal_moves, done) ==
    [status |-> 1,
     out |-> MkOut(legal_moves[done.best_index + 1].from_col,
                   legal_moves[done.best_index + 1].from_row,
                   legal_moves[done.best_index + 1].to_col,
                   legal_moves[done.best_index + 1].to_row),
     cache |-> done.cache,
     moves |-> legal_moves, scores |-> done.scores,
     best_index |-> done.best_index,
     hits |-> done.hits, stale |-> done.stale, seen |-> done.seen]

root_loop(call, cache, root, legal_moves) ==
    root_write(legal_moves,
        root_children(root, legal_moves, 1, Len(legal_moves), call,
            [best_score |-> SentinelScore(-1), best_index |-> 0,
             cache |-> cache, scores |-> << >>, hits |-> 0, stale |-> 0,
             seen |-> [NoneSeen EXCEPT !.expanded_clock = root.halfmove_clock]]))

\* Seeded fault: the root is tested with the search's game-status predicate first.
root_search_status_first(call, out, cache, root) ==
    IF get_game_status_state(root, call.active_color).status # STATUS_IN_PROGRESS
    THEN early_return(2, out, cache)
    ELSE root_loop(call, cache, root, generate_legal_moves_for_color(root, call.active_color))

\* Lines 1094-1134: what choose_best_move_c does with an accepted root.
root_search(call, out, cache, root) ==
    LET legal_moves == generate_legal_moves_for_color(root, call.active_color)
    IN IF Len(legal_moves) = 0 THEN early_return(2, out, cache)
       ELSE IF root_traps(call, root, legal_moves) THEN early_return(NO_RETURN, out, cache)
       ELSE root_loop(call, cache, root, legal_moves)

\* call: the arguments (inp, active_color, plies, params); out: the four output
\* slots before the call; cache: the handle's table before the call.
choose_best_move_c(call, out, cache) ==
    IF call.inp.null_args \cap ChooseRequired # {} THEN early_return(0, out, cache)
    ELSE IF call.active_color # 0 /\ call.active_color # 1 THEN early_return(0, out, cache)
    ELSE
      LET root == init_state(call.inp)
      IN IF root.ok = 0 THEN early_return(0, out, cache)
         ELSE root_search(call, out, cache, root.state)

EvaluateRequired ==
    {"piece_types", "piece_colors", "piece_cols", "piece_rows", "piece_values",
     "out_material", "out_heuristic"}

\* call: the arguments (inp, perspective_color, params); out: out_material and
\* out_heuristic before the call.
evaluate_piece_components_c(call, out) ==
    IF call.inp.null_args \cap EvaluateRequired # {} THEN [status |-> 0, out |-> out]
    ELSE
      LET state == init_state([call.inp EXCEPT !.null_args = @ \cup {"piece_moved"},
                                               !.en_passant_target_col = -1,
                                               !.en_passant_target_row = -1,
                                               !.en_passant_capture_col = -1,
                                               !.en_passant_capture_row = -1,
                                               !.halfmove_clock = 0])
      IN IF state.ok = 0 THEN [status |-> 0, out |-> out]
         ELSE LET params == [call.params EXCEPT !.control_weight = 0,
                                                 !.opposite_bishop_draw_factor = 1,
                                                 !.has_opposite_bishop_draw_factor = 0]
                  score == evaluate_state(state.state, call.perspective_color, params)
              IN [status |-> 1,
                  out |-> [material |-> score.material, heuristic |-> score.heuristic]]

----------------------------------------------------------------------------
(* Host inputs: the positions the host packs into the piece arrays *)

\* A piece is <<kind, color, col, row, moved>>.
MkInput(pieces, target_col, target_row, capture_col, capture_row, clock) ==
    [piece_types |-> [i \in 0..(Len(pieces) - 1) |-> pieces[i + 1][1]],
     piece_colors |-> [i \in 0..(Len(pieces) - 1) |-> pieces[i + 1][2]],
     piece_cols |-> [i \in 0..(Len(pieces) - 1) |-> pieces[i + 1][3]],
     piece_rows |-> [i \in 0..(Len(pieces) - 1) |-> pieces[i + 1][4]],
     piece_moved |-> [i \in 0..(Len(pieces) - 1) |-> pieces[i + 1][5]],
     piece_count |-> Len(pieces),
     en_passant_target_col |-> target_col,
     en_passant_target_row |-> target_row,
     en_passant_capture_col |-> capture_col,
     en_passant_capture_row |-> capture_row,
     halfmove_clock |-> clock,
     null_args |-> {}]

NoWindow(pieces, clock) == MkInput(pieces, -1, -1, -1, -1, clock)

\* Castling: unmoved white king and rooks, black king and a rook that can capture.
PosCastle ==
    NoWindow(<< <<5, 0, 4, 0, 0>>, <<3, 0, 7, 0, 0>>, <<3, 0, 0, 0, 0>>,
                <<5, 1, 4, 7, 0>>, <<3, 1, 7, 7, 0>> >>, 3)

\* Pawns that can double push beside an enemy pawn (en passant one ply later).
PosPawns ==
    NoWindow(<< <<5, 0, 4, 0, 1>>, <<0, 0, 4, 4, 1>>, <<0, 0, 1, 1, 0>>,
                <<5, 1, 4, 7, 1>>, <<0, 1, 5, 6, 0>>, <<0, 1, 2, 3, 1>> >>, 7)

\* A window left open by a black double push to (5,4).
PosWindow ==
    MkInput(<< <<5, 0, 4, 0, 1>>, <<0, 0, 4, 4, 1>>,
               <<5, 1, 4, 7, 1>>, <<0, 1, 5, 4, 1>> >>, 5, 5, 5, 4, 0)

\* Pawns one step from promotion, with a capture on the last rank.
PosPromote ==
    NoWindow(<< <<0, 0, 0, 6, 1>>, <<5, 0, 4, 0, 1>>, <<1, 1, 1, 7, 1>>,
                <<5, 1, 7, 7, 1>>, <<0, 1, 6, 1, 1>>, <<2, 0, 5, 0, 1>> >>, 2)

\* Pawns the host reports unmoved two steps from the last rank.
PosFarPawns ==
    NoWindow(<< <<0, 0, 2, 5, 0>>, <<5, 0, 4, 0, 1>>,
                <<5, 1, 4, 7, 1>>, <<0, 1, 5, 2, 0>> >>, 0)

\* Two plies before the fifty-move draw.
PosClock ==
    NoWindow(<< <<5, 0, 4, 0, 1>>, <<1, 0, 3, 0, 1>>, <<5, 1, 4, 7, 1>> >>, 98)

\* The fifty-move draw already reached.
PosDrawn ==
    NoWindow(<< <<5, 0, 0, 0, 1>>, <<5, 1, 7, 7, 1>>, <<0, 1, 3, 4, 1>> >>, 100)

\* Black has no king.
PosNoKing ==
    NoWindow(<< <<5, 0, 4, 0, 1>>, <<0, 1, 0, 6, 0>>, <<2, 1, 2, 7, 1>>, <<2, 0, 2, 0, 1>> >>, 0)

\* A white knight attacking a black knight and a black pawn: the capture worth
\* more depends on the piece values.
\* The clock at the greatest int: the next quiet move overflows it (line 524).
PosLastClock ==
    NoWindow(<< <<5, 0, 4, 0, 1>>, <<1, 0, 1, 0, 1>>, <<5, 1, 4, 7, 1>> >>, INT_MAX)

PosKnight ==
    NoWindow(<< <<5, 0, 0, 0, 1>>, <<1, 0, 5, 5, 1>>, <<5, 1, 7, 7, 1>>,
                <<1, 1, 6, 7, 1>>, <<0, 1, 3, 4, 1>> >>, 10)

\* Kings in opposite corners, an unmoved white pawn whose double push passes a
\* black pawn: few moves a side, for the deeper searches.
PosCorner ==
    NoWindow(<< <<5, 0, 0, 0, 1>>, <<0, 0, 1, 1, 0>>, <<5, 1, 7, 7, 1>>,
                <<0, 1, 2, 3, 1>> >>, 4)

\* Two pawns blocking each other: neither color has a move.
PosBlocked == NoWindow(<< <<0, 0, 0, 3, 1>>, <<0, 1, 0, 4, 1>> >>, 0)

PosEmpty == NoWindow(<< >>, 0)

\* Inputs init_state rejects.
PosDuplicate == NoWindow(<< <<5, 0, 4, 0, 0>>, <<5, 1, 4, 7, 0>>, <<1, 1, 4, 0, 0>> >>, 0)
PosOffBoard == NoWindow(<< <<5, 0, 4, 0, 0>>, <<5, 1, 8, 7, 0>> >>, 0)
PosBadKind == NoWindow(<< <<5, 0, 4, 0, 0>>, <<6, 1, 4, 7, 0>> >>, 0)
PosBadColor == NoWindow(<< <<5, 0, 4, 0, 0>>, <<5, 2, 4, 7, 0>> >>, 0)
PosTooMany == [PosEmpty EXCEPT !.piece_count = MAX_PIECES + 1]
PosNegative == [PosEmpty EXCEPT !.piece_count = -1]

ValidInputs ==
    {PosCastle, PosPawns, PosWindow, PosPromote, PosFarPawns, PosClock, PosDrawn,
     PosNoKing, PosKnight, PosBlocked, PosEmpty, PosLastClock}

InvalidInputs ==
    {PosDuplicate, PosOffBoard, PosBadKind, PosBadColor, PosTooMany, PosNegative}

RootInputs == ValidInputs \cup InvalidInputs

\* The positions the host searches from.
SearchInputs ==
    {PosCorner, PosClock, PosDrawn, PosNoKing, PosBlocked, PosEmpty, PosLastClock}
        \cup InvalidInputs

\* The positions the host searches from with one cache handle kept across calls.
ReuseInputs == {PosKnight, PosClock}

----------------------------------------------------------------------------
(* Evaluation weights the host passes *)

\* Seven multipliers, indexed 0..6, from a tuple.
Multipliers(m) == [k \in 0..6 |-> m[k + 1]]

\* Nine pawn-rank values, indexed 0..8 (index 0 unused), from a tuple.
RankValues(v) == [k \in 0..8 |-> v[k + 1]]

PieceValues(v) == [k \in 0..5 |-> v[k + 1]]

\* Material only: every optional weight absent, no control term.
ParamsPlain ==
    [piece_values |-> PieceValues(<<1, 3, 3, 5, 9, 0>>),
     pawn_rank_values |-> RankValues(<<0, 0, 0, 0, 0, 0, 0, 0, 0>>),
     pawn_rank_values_null |-> TRUE,
     has_pawn_rank_values |-> 0,
     backward_pawn_value |-> 0,
     has_backward_pawn_value |-> 0,
     position_multipliers |-> Multipliers(<<1, 1, 1, 1, 1, 1, 1>>),
     has_position_multipliers |-> 0,
     control_weight |-> 0,
     opposite_bishop_draw_factor |-> 1,
     has_opposite_bishop_draw_factor |-> 0]

\* Every optional weight present.
ParamsFull ==
    [piece_values |-> PieceValues(<<2, 6, 6, 10, 18, 0>>),
     pawn_rank_values |-> RankValues(<<0, 2, 2, 2, 3, 4, 6, 9, 18>>),
     pawn_rank_values_null |-> FALSE,
     has_pawn_rank_values |-> 1,
     backward_pawn_value |-> 1,
     has_backward_pawn_value |-> 1,
     position_multipliers |-> Multipliers(<<4, 3, 2, 0, 1, 1, 2>>),
     has_position_multipliers |-> 1,
     control_weight |-> 1,
     opposite_bishop_draw_factor |-> 3,
     has_opposite_bishop_draw_factor |-> 1]

\* Other piece values: a pawn outweighs a knight; negative control weight.
ParamsAlt ==
    [ParamsPlain EXCEPT !.piece_values = PieceValues(<<4, 1, 2, 5, 9, 0>>),
                        !.control_weight = -2]

\* Pawn-rank flag set but the table pointer NULL; multipliers only.
ParamsSquares ==
    [ParamsPlain EXCEPT !.has_pawn_rank_values = 1,
                        !.has_position_multipliers = 1,
                        !.position_multipliers = Multipliers(<<5, 4, 3, 2, 1, 0, 7>>)]

ParamSets == {ParamsPlain, ParamsFull, ParamsAlt, ParamsSquares}

----------------------------------------------------------------------------
(* The state machine *)

\* Moves applied in a row from the root.
MaxPlayed == 2

\* Deepest search the host asks for.
MaxPlies == 3

\* Calls the host makes with one cache handle, and the deepest of them.
MaxCalls == 2
MaxReusePlies == 2

\* The cache the host creates has 2^CacheBits entries.
CacheBits == 5

VARIABLES
    inp,       \* the host's packed position
    st,        \* the SearchState built from inp and advanced by apply_move
    last,      \* the last apply_move: its move, its return value, the state before
    played,    \* moves applied since the root
    cache,     \* the table behind the host's cache handle (NullCache: no handle)
    out,       \* the host's four move output slots
    eval_out,  \* the host's out_material and out_heuristic slots
    res,       \* the last entry-point call: its arguments, its status, what it saw
    calls      \* entry-point calls made with the cache handle

vars == <<inp, st, last, played, cache, out, eval_out, res, calls>>

\* The state variable when init_state rejected the input.
NoState == [rejected |-> TRUE]

NoMove == [kind |-> "none"]

NoCall == [op |-> "none"]

\* What the host's output slots hold before a call: no coordinate, no score.
HostOut == MkOut(-9, -9, -9, -9)
HostEvalOut == [material |-> -9, heuristic |-> -9]

StateOf(input) == IF init_state(input).ok = 1 THEN init_state(input).state ELSE NoState

Init ==
    /\ inp \in RootInputs
    /\ st = StateOf(inp)
    /\ last = NoMove
    /\ played = 0
    /\ cache = NullCache
    /\ out = HostOut
    /\ eval_out = HostEvalOut
    /\ res = NoCall
    /\ calls = 0

\* What the build makes of the clock increment in apply_move(state, move): it
\* overflows (undefined behaviour) when apply_traps, and then the build wraps
\* or traps.
ClockOverflowOf(state, move) ==
    IF apply_traps(state, move)
    THEN {"wraps", "traps"} ELSE {"wraps"}

\* apply_move(st, move) in a build with the given overflow outcome: a trap stops
\* the process inside the call (ok = NO_RETURN, the caller's state as it was).
Applied(color, move, overflow) ==
    /\ \E applied \in {apply_move(st, move)} :
        /\ st' = (IF applied.ok = 1 /\ overflow = "wraps" THEN applied.state ELSE st)
        /\ last' = [kind |-> "apply", move |-> move, color |-> color,
                    ok |-> IF overflow = "traps" THEN NO_RETURN ELSE applied.ok,
                    before |-> st]
    /\ played' = played + 1
    /\ UNCHANGED <<inp, cache, out, eval_out, res, calls>>

\* The search's step: copy the state, apply the k-th generated move of color.
ApplyGenerated(color, moves, k) ==
    \E overflow \in ClockOverflowOf(st, moves[k]) : Applied(color, moves[k], overflow)

\* The colors that may move: either at the root, then the search alternates.
ToMove == IF played = 0 THEN {0, 1} ELSE {opponent_color(last.color)}

\* A trapped increment has stopped the process: no further step.
Stopped == last # NoMove /\ last.ok = NO_RETURN

Play ==
    /\ st # NoState
    /\ ~Stopped
    /\ played < MaxPlayed
    /\ \E color \in ToMove :
        \E moves \in {generate_legal_moves_for_color(st, color)} :
            \E k \in 1..Len(moves) : ApplyGenerated(color, moves, k)

\* apply_move on a generated promotion move with another promotion field: the
\* generator always names QUEEN, apply_move takes any kind or -1 (none named).
ApplyPromotion(color, moves, k, promotion_type) ==
    /\ moves[k].promotion_type = PIECE_QUEEN
    /\ \E move \in {[moves[k] EXCEPT !.promotion_type = promotion_type]} :
        \E overflow \in ClockOverflowOf(st, move) : Applied(color, move, overflow)

Promote ==
    /\ st # NoState
    /\ ~Stopped
    /\ played < MaxPlayed
    /\ \E color \in ToMove :
        \E moves \in {generate_legal_moves_for_color(st, color)} :
            \E k \in 1..Len(moves), promotion_type \in (-1)..PIECE_KING :
                ApplyPromotion(color, moves, k, promotion_type)

Next == Play \/ Promote

Spec == Init /\ [][Next]_vars

----------------------------------------------------------------------------
(* Properties of apply_move on generated moves, under Spec *)

\* The last step applied a move and apply_move returned 1.
Accepted == last.kind = "apply" /\ last.ok = 1

\* The piece that moved, and what the move did, read off the state before it.
Mover == last.before.board[last.move.from_row][last.move.from_col]
MoverIsPawn == last.before.piece_type[Mover] = PIECE_PAWN
TargetBefore == last.before.board[last.move.to_row][last.move.to_col]
TookEnPassant ==
    MoverIsPawn /\ TargetBefore = -1 /\ last.move.from_col # last.move.to_col
IsDoublePush ==
    MoverIsPawn /\ (last.move.to_row - last.move.from_row) \in {2, -2}
IsCastling ==
    /\ last.before.piece_type[Mover] = PIECE_KING
    /\ (last.move.to_col - last.move.from_col) \in {2, -2}

\* The occupancy grid and the piece list of state agree.
Occupancy(state) ==
    /\ \A row \in 0..7, col \in 0..7 :
          LET i == state.board[row][col]
          IN IF i = -1
             THEN \A j \in 0..(state.piece_count - 1) :
                     ~(state.alive[j] = 1 /\ state.piece_col[j] = col /\ state.piece_row[j] = row)
             ELSE /\ i \in 0..(state.piece_count - 1)
                  /\ state.alive[i] = 1
                  /\ state.piece_col[i] = col
                  /\ state.piece_row[i] = row
    /\ \A i \in 0..(state.piece_count - 1), j \in 0..(state.piece_count - 1) :
          (i # j /\ state.alive[i] = 1 /\ state.alive[j] = 1)
              => (state.piece_col[i] # state.piece_col[j] \/ state.piece_row[i] # state.piece_row[j])

\* C5: in every state reached from an accepted input by generated moves applied
\* with apply_move, board[r][c] = i exactly when piece i is alive on (c, r), every
\* other square is empty (-1), and no two alive pieces share a square.
C5_OccupancyConsistent == st # NoState => Occupancy(st)

\* C5 witness: an en-passant capture has been applied (the captured pawn is not
\* on the destination square) and the grid and the list agree after it.
C5_AfterEnPassant ==
    /\ Accepted
    /\ TookEnPassant
    /\ st.board[last.before.en_passant_capture_row][last.before.en_passant_capture_col] = -1
    /\ Occupancy(st)

\* after is the int one greater than before; no int is one greater than INT_MAX.
OneGreater(after, before) == before < INT_MAX /\ after = before + 1

\* C7: after an accepted apply_move the halfmove clock is 0 when the moved piece
\* was a pawn or a piece was captured (on the destination square or en passant),
\* and otherwise, castling included, the clock before plus one.
C7_HalfmoveClock ==
    Accepted =>
        IF MoverIsPawn \/ TargetBefore # -1 \/ TookEnPassant
        THEN st.halfmove_clock = 0
        ELSE OneGreater(st.halfmove_clock, last.before.halfmove_clock)

\* C7 below the greatest int: the same for every clock before the move that is
\* less than INT_MAX.
C7_HalfmoveClockBelowMax ==
    (Accepted /\ last.before.halfmove_clock < INT_MAX) =>
        IF MoverIsPawn \/ TargetBefore # -1 \/ TookEnPassant
        THEN st.halfmove_clock = 0
        ELSE st.halfmove_clock = last.before.halfmove_clock + 1

\* C7 at the greatest int, in a build that wraps: a quiet move was accepted on a
\* clock of INT_MAX and left the clock at INT_MIN.
C7_ClockWrapped ==
    /\ Accepted
    /\ last.before.halfmove_clock = INT_MAX
    /\ st.halfmove_clock = INT_MIN

\* C7 at the greatest int, in a build that traps: the move never returned.
C7_ClockTrapped ==
    /\ Stopped
    /\ last.before.halfmove_clock = INT_MAX

\* C7 witness: a castling move has been applied and the clock went up by one.
C7_AfterCastling ==
    /\ Accepted
    /\ IsCastling
    /\ st.halfmove_clock = last.before.halfmove_clock + 1
    /\ st.halfmove_clock > 1

\* C8: after an accepted apply_move of a generated move the en-passant window is
\* set exactly when the move was a two-square pawn push, to target (from_col,
\* (from_row + to_row) / 2) and capture (to_col, to_row); after any other move
\* the four window fields are -1, whatever they were before.
C8_EnPassantWindow ==
    Accepted =>
        IF IsDoublePush
        THEN /\ st.en_passant_target_col = last.move.from_col
             /\ st.en_passant_target_row = (last.move.from_row + last.move.to_row) \div 2
             /\ st.en_passant_capture_col = last.move.to_col
             /\ st.en_passant_capture_row = last.move.to_row
        ELSE /\ st.en_passant_target_col = -1
             /\ st.en_passant_target_row = -1
             /\ st.en_passant_capture_col = -1
             /\ st.en_passant_capture_row = -1

\* C8 witness: a move that is no double push has been applied to a state whose
\* window was open, and the window is closed after it.
C8_WindowClosed ==
    /\ Accepted
    /\ ~IsDoublePush
    /\ last.before.en_passant_target_col # -1
    /\ last.before.en_passant_capture_row # -1
    /\ st.en_passant_target_col = -1
    /\ st.en_passant_capture_row = -1

\* C9: when apply_move accepts a move that brings a pawn to row 0 or row 7 with
\* promotion field -1, the piece on the destination square afterwards is a QUEEN
\* of the pawn's color, a double push onto the last rank included.
C9_DefaultQueen ==
    (/\ Accepted
     /\ MoverIsPawn
     /\ last.move.to_row \in {0, 7}
     /\ last.move.promotion_type = -1)
        => LET i == st.board[last.move.to_row][last.move.to_col]
           IN /\ i # -1
              /\ st.alive[i] = 1
              /\ st.piece_type[i] = PIECE_QUEEN
              /\ st.piece_color[i] = last.before.piece_color[Mover]

\* C9 witness: a pawn has captured onto the last rank with promotion field -1
\* and a queen of its color stands there.
C9_CapturedAndPromoted ==
    /\ Accepted
    /\ MoverIsPawn
    /\ TargetBefore # -1
    /\ last.move.to_row \in {0, 7}
    /\ last.move.promotion_type = -1
    /\ st.piece_type[st.board[last.move.to_row][last.move.to_col]] = PIECE_QUEEN
    /\ st.piece_color[st.board[last.move.to_row][last.move.to_col]] = last.color

\* C9, the double push: an unmoved pawn's double push has landed on the last rank
\* (promotion field -1) and a queen stands there.
C9_DoublePushPromoted ==
    /\ Accepted
    /\ IsDoublePush
    /\ last.move.to_row \in {0, 7}
    /\ last.move.promotion_type = -1
    /\ st.piece_type[st.board[last.move.to_row][last.move.to_col]] = PIECE_QUEEN

Negated(score) == MkScore(-score.material, -score.heuristic)

\* C10: for every reachable state and every weight setting, evaluate_state from
\* WHITE's perspective is the negation of evaluate_state from BLACK's perspective,
\* in the material and in the heuristic component.
C10_EvaluateAntisymmetric ==
    st # NoState =>
        \A params \in ParamSets :
            evaluate_state(st, 0, params) = Negated(evaluate_state(st, 1, params))

\* C10 witness: a state with opposite-colored bishops whose evaluation with every
\* optional weight present is non-zero in both components; the control term and
\* the bishop factor both take part.
C10_WeightedState ==
    /\ st # NoState
    /\ has_opposite_color_bishops_state(st) # 0
    /\ control_score(st, 0, ParamsFull) # 0
    /\ evaluate_state(st, 0, ParamsFull).material # 0
    /\ evaluate_state(st, 0, ParamsFull).heuristic # 0
    /\ evaluate_state(st, 0, ParamsFull) = Negated(evaluate_state(st, 1, ParamsFull))

----------------------------------------------------------------------------
(* The host calling the entry points *)

\* Argument pointers the host may leave NULL, one at a time.
ChooseNulls == {{}, {"piece_moved"}, {"piece_values"}, {"out_to_row"}}

EvaluateNulls == {{}, {"piece_moved"}, {"piece_values"}, {"out_heuristic"}}

SearchParams == {ParamsPlain, ParamsFull}

\* The record of one choose_best_move_c call made with the handle's table.
\* plain is the same call made with a null cache handle.
ChooseRecord(call, before, table, with, plain) ==
    [op |-> IF with.status = NO_RETURN THEN "stopped" ELSE "choose",
     call |-> call, before |-> before,
     handle |-> ~table.ptr_null,
     status |-> with.status, out |-> with.out, cache |-> with.cache,
     moves |-> with.moves, scores |-> with.scores, best_index |-> with.best_index,
     hits |-> with.hits, stale |-> with.stale, seen |-> with.seen,
     plain |-> [status |-> plain.status, out |-> plain.out, scores |-> plain.scores]]

ChooseCompared(call, before, table, with) ==
    ChooseRecord(call, before, table, with,
        IF table.ptr_null THEN with ELSE choose_best_move_c(call, before, NullCache))

ChooseResult(call, before, table) ==
    ChooseCompared(call, before, table, choose_best_move_c(call, before, table))

\* One call of choose_best_move_c on the host's position, with a null handle or
\* a handle to a cache just created.
ChooseBestMove(active_color, plies, overflow, params, nulls, table) ==
    /\ LET call == [inp |-> [inp EXCEPT !.null_args = nulls],
                    active_color |-> active_color, plies |-> plies, params |-> params,
                    overflow |-> overflow]
       IN res' = ChooseResult(call, out, table)
    /\ out' = res'.out
    /\ cache' = res'.cache
    /\ calls' = calls + 1
    /\ UNCHANGED <<inp, st, last, played, eval_out>>

\* One call of evaluate_piece_components_c on the host's position.
EvaluatePieceComponents(perspective_color, params, nulls) ==
    /\ res = NoCall
    /\ LET call == [inp |-> [inp EXCEPT !.null_args = nulls],
                    perspective_color |-> perspective_color, params |-> params]
           done == evaluate_piece_components_c(call, eval_out)
       IN res' = [op |-> "evaluate", call |-> call, before |-> eval_out,
                  status |-> done.status, out |-> done.out]
    /\ eval_out' = res'.out
    /\ UNCHANGED <<inp, st, last, played, cache, out, calls>>

InitSearch ==
    /\ inp \in SearchInputs
    /\ st = StateOf(inp)
    /\ last = NoMove
    /\ played = 0
    /\ cache = NullCache
    /\ out = HostOut
    /\ eval_out = HostEvalOut
    /\ res = NoCall
    /\ calls = 0

\* The plies drawn for a position: -1 .. MaxPlies, and INT_MIN where the
\* halfmove clock ends a search of any depth within two levels.
PliesOf(input) == (-1..MaxPlies) \cup (IF input = PosClock THEN {INT_MIN} ELSE {})

\* What the build makes of INT_MIN - 1 (line 1124) and of INT_MAX + 1 (line 524).
OverflowOf(input, plies) ==
    IF plies = INT_MIN \/ input.halfmove_clock = INT_MAX
    THEN {"wraps", "traps"} ELSE {"wraps"}

Choose ==
    /\ res = NoCall
    /\ \E active_color \in 0..2, plies \in PliesOf(inp), params \in SearchParams,
          nulls \in ChooseNulls, table \in {NullCache, FreshCache(2 ^ CacheBits)} :
          \E overflow \in OverflowOf(inp, plies) :
            ChooseBestMove(active_color, plies, overflow, params, nulls, table)

Evaluate ==
    \E perspective_color \in 0..2, params \in ParamSets, nulls \in EvaluateNulls :
        EvaluatePieceComponents(perspective_color, params, nulls)

NextSearch == Choose \/ Evaluate

SpecSearch == InitSearch /\ [][NextSearch]_vars

----------------------------------------------------------------------------
(* Properties of the entry points, under SpecSearch *)

\* The last call was a choose_best_move_c call that passed the null checks, the
\* color check and init_state.
ChooseAccepted ==
    /\ res.op = "choose"
    /\ res.call.inp.null_args \cap ChooseRequired = {}
    /\ res.call.active_color \in {0, 1}
    /\ init_state(res.call.inp).ok = 1

\* The root of the last call and the moves generated for its active color.
RootState == init_state(res.call.inp).state
RootMoves == generate_legal_moves_for_color(RootState, res.call.active_color)

\* The root is terminal under the predicate the search uses at its nodes.
RootTerminal ==
    get_game_status_state(RootState, res.call.active_color).status # STATUS_IN_PROGRESS

\* C1: when choose_best_move_c returns 0 or 2 the four output slots hold what
\* they held before the call, and when evaluate_piece_components_c returns 0
\* out_material and out_heuristic hold what they held before the call.
C1_FailureLeavesOutputs ==
    /\ (res.op = "choose" /\ res.status \in {0, 2}) => out = res.before
    /\ (res.op = "choose" /\ res.status = 0) => ~ChooseAccepted
    /\ (res.op = "choose" /\ res.status = 2) => (ChooseAccepted /\ Len(RootMoves) = 0)
    /\ (res.op = "evaluate" /\ res.status = 0) => eval_out = res.before

\* C1 witness: a call on an accepted root without a move for the active color
\* has returned 2 and the slots still hold the host's values.
C1_ReturnedTwo ==
    /\ ChooseAccepted
    /\ res.call.inp.piece_count > 0
    /\ res.status = 2
    /\ out = HostOut

\* C2: a single search run with a handle to an initially empty cache takes no
\* cache hit whose score differs from the score the node computes without a
\* cache, and returns the status, the chosen move and the root scores of the
\* same search run with a null handle.
C2_CacheIsOracle ==
    (res.op = "choose" /\ res.handle) =>
        /\ res.stale = 0
        /\ res.status = res.plain.status
        /\ res.out = res.plain.out
        /\ res.scores = res.plain.scores

\* C2 witness: a search with a handle has taken cache hits and written a move.
C2_TookHits ==
    /\ res.op = "choose"
    /\ res.handle
    /\ res.status = 1
    /\ res.hits > 1
    /\ res.out = res.plain.out

\* C4 as stated: a root that is terminal under the game-status predicate (a king
\* absent, halfmove_clock >= 100, or no pseudo-legal move) makes the call return
\* 2 and write no move.
C4_TerminalRootReturnsTwo ==
    (ChooseAccepted /\ RootTerminal) => (res.status = 2 /\ out = res.before)

\* C4 amended: an accepted call returns 2 and writes no move exactly when the
\* active color has no pseudo-legal move at the root; with a move available it
\* returns 1 and writes a generated move, even when a king is absent or
\* halfmove_clock >= 100.
C4_NoMoveRootReturnsTwo ==
    ChooseAccepted =>
        IF Len(RootMoves) = 0
        THEN res.status = 2 /\ out = res.before
        ELSE /\ res.status = 1
             /\ \E k \in 1..Len(RootMoves) :
                    out = MkOut(RootMoves[k].from_col, RootMoves[k].from_row,
                                RootMoves[k].to_col, RootMoves[k].to_row)

\* C4 witness: a root with halfmove_clock >= 100 and both kings present, so
\* terminal under the predicate, had a move written for it with status 1.
C4_TerminalRootMoved ==
    /\ ChooseAccepted
    /\ RootTerminal
    /\ RootState.halfmove_clock >= 100
    /\ king_found(RootState, 0) /\ king_found(RootState, 1)
    /\ res.status = 1
    /\ out # res.before

----------------------------------------------------------------------------
(* The host keeping one cache handle across calls *)

ReuseParams == {ParamsPlain, ParamsAlt}

InitReuse ==
    /\ inp \in ReuseInputs
    /\ st = StateOf(inp)
    /\ last = NoMove
    /\ played = 0
    /\ cache = FreshCache(2 ^ CacheBits)
    /\ out = HostOut
    /\ eval_out = HostEvalOut
    /\ res = NoCall
    /\ calls = 0

\* One call of choose_best_move_c with the handle, whatever earlier calls left
\* in its table.
ChooseReusing(active_color, plies, params) ==
    /\ calls < MaxCalls
    /\ LET call == [inp |-> inp, active_color |-> active_color, plies |-> plies,
                    params |-> params, overflow |-> "wraps"]
       IN res' = ChooseResult(call, out, cache)
    /\ out' = res'.out
    /\ cache' = res'.cache
    /\ calls' = calls + 1
    /\ UNCHANGED <<inp, st, last, played, eval_out>>

Reuse ==
    \E active_color \in 0..1, plies \in 1..MaxReusePlies, params \in ReuseParams :
        ChooseReusing(active_color, plies, params)

\* The game moves on: the host packs another position.
NewPosition ==
    /\ calls < MaxCalls
    /\ res # NoCall
    /\ \E next \in ReuseInputs \ {inp} :
        /\ inp' = next
        /\ st' = StateOf(next)
    /\ UNCHANGED <<last, played, cache, out, eval_out, res, calls>>

\* The host destroys its handle between two calls and goes on without a cache.
Destroy ==
    /\ calls < MaxCalls
    /\ res # NoCall
    /\ ~cache.ptr_null
    /\ cache' = destroy_search_cache_c(cache)
    /\ UNCHANGED <<inp, st, last, played, out, eval_out, res, calls>>

NextReuse == Reuse \/ NewPosition \/ Destroy

SpecReuse == InitReuse /\ [][NextReuse]_vars

----------------------------------------------------------------------------
(* Properties of calls sharing one cache handle, under SpecReuse *)

\* C3: a call made with a cache handle reused from earlier calls, for whatever
\* positions, colors, plies and weights, returns the status and the chosen move
\* of the same call made with a null handle.
C3_ReusedCacheKeepsResult ==
    (res.op = "choose" /\ res.handle) =>
        (res.status = res.plain.status /\ res.out = res.plain.out)

\* The minimax score of root move j: opponent to move, perspective the root's
\* active color, depth plies - 1, computed without a cache.
RootScore(j) == res.plain.scores[j]

\* C6: when choose_best_move_c returns 1 the move written is the root move
\* whose resulting position has the lexicographically greatest minimax score,
\* the first in generation order among those tied on it.
C6_FirstGreatestScore ==
    (res.op = "choose" /\ res.status = 1) =>
        LET k == res.best_index + 1
        IN /\ out = MkOut(res.moves[k].from_col, res.moves[k].from_row,
                          res.moves[k].to_col, res.moves[k].to_row)
           /\ \A j \in 1..Len(res.moves) :
                 /\ compare_score(RootScore(j), RootScore(k)) <= 0
                 /\ j < k => compare_score(RootScore(j), RootScore(k)) < 0

----------------------------------------------------------------------------
(* The functions of the core applied one at a time to drawn arguments *)

\* Scores are drawn with components up to MaxScore in magnitude, together with
\* the win score and the sentinel of the best-score initialisers.
MaxScore == 1

MaterialValues == (-MaxScore..MaxScore) \cup {-SENTINEL, -WIN_SCORE, WIN_SCORE, SENTINEL}

HeuristicValues == (-MaxScore..MaxScore) \cup {-SENTINEL, SENTINEL}

\* Scores of numbers (the extremes -SENTINEL and SENTINEL being numbers like the
\* others here) and the two scores of sentinels the search starts from.
ScoreValues ==
    {MkScore(m, h) : m \in MaterialValues, h \in HeuristicValues}
        \cup {SentinelScore(-1), SentinelScore(1)}

InitFunctions ==
    /\ inp = PosEmpty
    /\ st = StateOf(PosEmpty)
    /\ last = NoMove
    /\ played = 0
    /\ cache = NullCache
    /\ out = HostOut
    /\ eval_out = HostEvalOut
    /\ res = NoCall
    /\ calls = 0

\* compare_score on the pairs of three scores.
CompareScores(a, b, c) ==
    /\ res' = [op |-> "compare", a |-> a, b |-> b, c |-> c,
               ab |-> compare_score(a, b), ba |-> compare_score(b, a),
               bc |-> compare_score(b, c), ac |-> compare_score(a, c),
               aa |-> compare_score(a, a)]
    /\ UNCHANGED <<inp, st, last, played, cache, out, eval_out, calls>>

Compare ==
    /\ res = NoCall
    /\ \E a \in ScoreValues, b \in ScoreValues, c \in ScoreValues : CompareScores(a, b, c)

\* The piece arrays init_state is applied to: up to MaxInitPieces pieces, each a
\* piece init_state can record or a piece with one field out of range, in every
\* order and on equal or different squares; a board of MAX_PIECES pieces; and
\* the two piece counts outside 0..MAX_PIECES.
MaxInitPieces == 2

RecordablePieces ==
    {<<kind, color, square[1], square[2], moved>> :
        kind \in {PIECE_PAWN, PIECE_KING}, color \in {0, 1},
        square \in {<<0, 0>>, <<7, 7>>}, moved \in {0, 1}}

RejectedPieces ==
    {<<-1, 0, 3, 3, 0>>, <<6, 0, 3, 3, 0>>, <<1, -1, 3, 3, 0>>, <<1, 2, 3, 3, 0>>,
     <<1, 0, -1, 3, 0>>, <<1, 0, 8, 3, 0>>, <<1, 0, 3, -1, 0>>, <<1, 0, 3, 8, 0>>}

PosFull == NoWindow([i \in 1..MAX_PIECES |-> <<(i % 6), (i % 2), (i - 1) % 8, (i - 1) \div 8, 0>>], 0)

InitInputs ==
    {NoWindow(pieces, 0) :
        pieces \in UNION {[1..n -> RecordablePieces \cup RejectedPieces] : n \in 0..MaxInitPieces}}
    \cup {PosFull, PosTooMany, PosNegative}

\* init_state on the host's arrays, with piece_moved given or NULL.
InitState(input, nulls) ==
    /\ res' = [op |-> "init", inp |-> [input EXCEPT !.null_args = nulls],
               ok |-> init_state([input EXCEPT !.null_args = nulls]).ok,
               state |-> init_state([input EXCEPT !.null_args = nulls]).state]
    /\ UNCHANGED <<inp, st, last, played, cache, out, eval_out, calls>>

Initialise ==
    /\ res = NoCall
    /\ \E input \in InitInputs, nulls \in {{}, {"piece_moved"}} : InitState(input, nulls)

\* Kings and rooks on their home squares, pawns of both colors side by side on
\* row 4, a pawn on its starting square and pieces around them.
PosCrowd ==
    NoWindow(<< <<5, 0, 4, 0, 0>>, <<3, 0, 7, 0, 0>>, <<3, 0, 0, 0, 1>>,
                <<0, 0, 3, 4, 1>>, <<0, 0, 1, 1, 0>>, <<2, 0, 2, 2, 1>>,
                <<5, 1, 4, 7, 0>>, <<3, 1, 0, 7, 0>>, <<0, 1, 4, 4, 1>>,
                <<0, 1, 2, 4, 1>>, <<1, 1, 5, 5, 1>>, <<4, 1, 6, 3, 1>> >>, 0)

GeneratePositions == {PosCrowd, PosCastle, PosPromote}

\* The en-passant fields the host may pass: init_state copies them untested
\* (lines 219-222).
WindowCols == {-1, 2, 3, 4, 8}
WindowRows == {-1, 0, 3, 4, 5}

\* input with the four en-passant fields given and the moved flags all set to
\* moved (or left as they are for moved = -1).
WithWindow(input, target_col, target_row, capture_col, capture_row, moved) ==
    [input EXCEPT !.en_passant_target_col = target_col,
                  !.en_passant_target_row = target_row,
                  !.en_passant_capture_col = capture_col,
                  !.en_passant_capture_row = capture_row,
                  !.piece_moved = [i \in DOMAIN @ |-> IF moved = -1 THEN @[i] ELSE moved]]

\* generate_legal_moves_for_color on the state of input, then apply_move of each
\* generated move on a copy of that state, as the loops of lines 929-932,
\* 946-949 and 1119-1122 do.
GenerateMoves(input, color) ==
    /\ \E state \in {StateOf(input)} :
         \E moves \in {generate_legal_moves_for_color(state, color)} :
            res' = [op |-> "generate", inp |-> input, color |-> color, state |-> state,
                    moves |-> moves,
                    accepted |-> [i \in 1..Len(moves) |-> apply_move(state, moves[i]).ok]]
    /\ UNCHANGED <<inp, st, last, played, cache, out, eval_out, calls>>

Generate ==
    /\ res = NoCall
    /\ \E input \in GeneratePositions, target_col \in WindowCols, target_row \in WindowRows,
          capture_col \in WindowCols, capture_row \in WindowRows, moved \in -1..1,
          color \in 0..1 :
          \E given \in {WithWindow(input, target_col, target_row, capture_col,
                                     capture_row, moved)} :
              GenerateMoves(given, color)

\* The generated moves tried by Apply: the first MaxGenerated of a list.
MaxGenerated == 12

\* The byte budgets and the failed allocations drawn for create_search_cache_c.
MaxBytes == 700
MaxFailures == 2

\* A budget for more than 2^16 entries: the bucket index takes bits of the key
\* above its low 16.
LargeBytes == 5242880

\* Keys with all bits clear, all bits set, and mixed.
CacheKeys == {to_u64(0), to_u64(-1), HASH_BASIS, to_u64(43690)}

\* create_search_cache_c(max_bytes), then the bucket index cache_lookup and
\* cache_store compute for key (lines 757 and 784) and a store followed by a
\* lookup of the same key.
CreateCache(max_bytes, handle_fails, failures, key) ==
    /\ \E handle \in {create_search_cache_c(max_bytes, handle_fails, failures)} :
         res' = [op |-> "create", max_bytes |-> max_bytes, handle_fails |-> handle_fails,
                 failures |-> failures, handle |-> handle, key |-> key,
                 index |-> IF handle.ptr_null THEN -1 ELSE cache_index(handle, key),
                 found |-> cache_lookup(cache_store(handle, key, 1, 2, MkScore(3, 4)),
                                        key, 1, 2)]
    /\ UNCHANGED <<inp, st, last, played, cache, out, eval_out, calls>>

Create ==
    /\ res = NoCall
    /\ \E max_bytes \in (0..MaxBytes) \cup {LargeBytes}, handle_fails \in BOOLEAN,
          failures \in 0..MaxFailures,
          key \in CacheKeys :
          CreateCache(max_bytes, handle_fails, failures, key)

\* White with a king and fifteen pawns that cannot move (two files of pawns, each
\* behind the next, beside the king in the corner), black with a king.
StuckPieces ==
    << <<5, 0, 0, 0, 1>> >> \o [r \in 1..7 |-> <<0, 0, 0, r, 1>>]
        \o [r \in 1..8 |-> <<0, 0, 1, r - 1, 1>>] \o << <<5, 1, 7, 7, 1>> >>

\* Kings, knights and a pawn with moves for both colors.
ArmyPieces ==
    << <<5, 0, 0, 0, 1>>, <<1, 0, 5, 5, 1>>, <<5, 1, 7, 7, 1>>,
       <<1, 1, 6, 7, 1>>, <<0, 1, 3, 4, 1>> >>

\* pieces without the kings of the colors not in kept.
WithKings(pieces, kept) ==
    SelectSeq(pieces, LAMBDA piece : piece[1] # PIECE_KING \/ piece[2] \in kept)

\* One call of minimax_score_state on the state of input, with no cache or
\* with a cache just created: the lookup of line 894 misses.
MinimaxScore(input, active_color, perspective_color, remaining_plies, params, table) ==
    /\ \E state \in {StateOf(input)} :
         res' = [op |-> "minimax", inp |-> input, state |-> state,
                 active_color |-> active_color, perspective_color |-> perspective_color,
                 remaining_plies |-> remaining_plies, params |-> params,
                 handle |-> ~table.ptr_null,
                 score |-> minimax_score_state(state, active_color, perspective_color,
                               remaining_plies, params, table).score]
    /\ UNCHANGED <<inp, st, last, played, cache, out, eval_out, calls>>

Minimax ==
    /\ res = NoCall
    /\ \E pieces \in {StuckPieces, ArmyPieces}, kept \in SUBSET {0, 1}, clock \in {0, 99, 100},
          active_color \in 0..1, perspective_color \in 0..1, remaining_plies \in -1..2,
          params \in SearchParams, table \in {NullCache, FreshCache(2 ^ CacheBits)} :
          \E input \in {NoWindow(WithKings(pieces, kept), clock)} :
              MinimaxScore(input, active_color, perspective_color, remaining_plies,
                           params, table)

\* No pawn, or one pawn of the color on one of the files and any row.
PawnsNear(color, files) ==
    {<< >>} \cup {<< <<PIECE_PAWN, color, c, r, 1>> >> : c \in files \cap (0..7), r \in 0..7}

\* is_backward_pawn_state for piece 0 of the state of input.
BackwardPawn(input) ==
    /\ \E root \in {init_state(input)} :
         /\ root.ok = 1
         /\ res' = [op |-> "backward", inp |-> input, state |-> root.state,
                    backward |-> is_backward_pawn_state(root.state, 0)]
    /\ UNCHANGED <<inp, st, last, played, cache, out, eval_out, calls>>

\* A pawn of either color, with or without a friendly pawn near it and an enemy
\* pawn near it.
Backward ==
    /\ res = NoCall
    /\ \E color \in 0..1, col \in {0, 3}, row \in {0, 3, 4, 7} :
         \E friend \in PawnsNear(color, {col - 1, col + 1, col + 2}),
            enemy \in PawnsNear(1 - color, {col - 1, col, col + 1}) :
            BackwardPawn(NoWindow(<< <<PIECE_PAWN, color, col, row, 1>> >> \o friend \o enemy, 0))

\* The promotion fields of the moves apply_move is given: the generator writes
\* -1 and PIECE_QUEEN only (lines 259, 263, 277, 296, 381, 399, 413) and the
\* three callers of apply_move pass generated moves (lines 931, 948, 1120).
\* Taken here: each of the six kinds, the -1 of the generator and one more
\* negative field.
PromotionFields == (-2)..PIECE_KING

\* apply_move of a generated move with its promotion field set to
\* promotion_type, on a copy of the state of input.
ApplyWithField(input, color, k, promotion_type) ==
    /\ \E state \in {StateOf(input)} :
         \E moves \in {generate_legal_moves_for_color(state, color)} :
            /\ k <= Len(moves)
            /\ \E move \in {[moves[k] EXCEPT !.promotion_type = promotion_type]} :
                 \E applied \in {apply_move(state, move)} :
                    res' = [op |-> "apply", inp |-> input, before |-> state, move |-> move,
                            ok |-> applied.ok, state |-> applied.state]
    /\ UNCHANGED <<inp, st, last, played, cache, out, eval_out, calls>>

Apply ==
    /\ res = NoCall
    /\ \E input \in {PosPromote, PosFarPawns}, color \in 0..1, k \in 1..MaxGenerated,
          promotion_type \in PromotionFields :
          ApplyWithField(input, color, k, promotion_type)

\* The home row of a color's king and rooks (lines 387 and 486).
HomeRow(color) == IF color = 0 THEN 0 ELSE 7

\* What may stand on a corner of the home row: nothing, a rook of the king's
\* color never moved, one that has moved, an enemy rook, a queen of the king's color.
CornerOptions == {"empty", "rook", "moved", "enemy", "queen"}

CornerPiece(option, color, col, row) ==
    IF option = "empty" THEN << >>
    ELSE IF option = "rook" THEN << <<PIECE_ROOK, color, col, row, 0>> >>
    ELSE IF option = "moved" THEN << <<PIECE_ROOK, color, col, row, 1>> >>
    ELSE IF option = "enemy" THEN << <<PIECE_ROOK, opponent_color(color), col, row, 0>> >>
    ELSE << <<PIECE_QUEEN, color, col, row, 0>> >>

\* The king as <<col, rows away from its home row, moved>>: at home and unmoved,
\* at home and moved, beside its home square, on the other color's home square.
CastleKings == {<<4, 0, 0>>, <<4, 0, 1>>, <<3, 0, 0>>, <<4, 7, 0>>}

\* A column of the home row holding a knight (of either color), -1 for none.
Blockers == {-1, 1, 2, 3, 5, 6}

\* A king of color, what stands on the two corners of its home row, a knight on
\* the home row, the enemy king, and (attacked) an enemy rook bearing on
\* column 5 of the home row.
CastleInput(color, king, near, far, blocker, attacked) ==
    NoWindow(<< <<PIECE_KING, color, king[1],
                  IF color = 0 THEN king[2] ELSE 7 - king[2], king[3]>> >>
             \o CornerPiece(near, color, 7, HomeRow(color))
             \o CornerPiece(far, color, 0, HomeRow(color))
             \o (IF blocker = -1 THEN << >>
                 ELSE << <<PIECE_KNIGHT, (color + blocker) % 2, blocker, HomeRow(color), 1>> >>)
             \o << <<PIECE_KING, opponent_color(color), 0, 4, 1>> >>
             \o (IF attacked THEN << <<PIECE_ROOK, opponent_color(color), 5, 4, 1>> >>
                 ELSE << >>), 7)

\* White queens on these squares (<<col, row>>) have 253 moves between them.
QueenSquares ==
    << <<0, 0>>, <<1, 0>>, <<3, 0>>, <<5, 1>>, <<6, 1>>, <<7, 1>>, <<0, 2>>, <<4, 2>>,
       <<7, 2>>, <<2, 3>>, <<7, 3>>, <<0, 4>>, <<7, 4>>, <<2, 5>>, <<7, 5>>, <<0, 6>>,
       <<7, 6>>, <<1, 7>>, <<2, 7>>, <<3, 7>>, <<4, 7>>, <<5, 7>>, <<6, 7>>, <<7, 7>> >>

\* More than MAX_MOVES pseudo-legal white moves: the queens, a black pawn they can
\* capture, then the unmoved rook on (7,0) and last the unmoved king on (4,0),
\* with (5,0) and (6,0) empty.
PosOverflow ==
    NoWindow([i \in 1..Len(QueenSquares) |->
                  <<PIECE_QUEEN, 0, QueenSquares[i][1], QueenSquares[i][2], 1>>]
             \o << <<PIECE_PAWN, 1, 2, 0, 1>>, <<PIECE_ROOK, 0, 7, 0, 0>>,
                   <<PIECE_KING, 0, 4, 0, 0>> >>, 0)

\* King and both rooks of color at home and unmoved, nothing between them, the
\* halfmove clock at the greatest int.
CastleLastClock(color) ==
    [CastleInput(color, <<4, 0, 0>>, "rook", "rook", -1, FALSE)
        EXCEPT !.halfmove_clock = INT_MAX]

\* The castling king move of color to column to_col.
CastlingMove(color, to_col) == MkMove(4, HomeRow(color), to_col, HomeRow(color), -1)

\* generate_legal_moves_for_color on the state of input, then apply_move of the
\* two castling king moves of color, each on a copy of that state, in a build
\* that wraps or (where the clock increment overflows) one that traps.
CastleMoves(input, color) ==
    /\ init_state(input).ok = 1
    /\ \E state \in {StateOf(input)} :
         \E overflow \in UNION {ClockOverflowOf(state, CastlingMove(color, to_col)) :
                                    to_col \in {2, 6}} :
            res' = [op |-> "castle", inp |-> input, color |-> color, state |-> state,
                    moves |-> generate_legal_moves_for_color(state, color),
                    castled |-> [to_col \in {2, 6} |->
                                    apply_move_in(state, CastlingMove(color, to_col),
                                                  overflow)]]
    /\ UNCHANGED <<inp, st, last, played, cache, out, eval_out, calls>>

Castle ==
    /\ res = NoCall
    /\ \/ \E color \in 0..1, king \in CastleKings, near \in CornerOptions,
             far \in CornerOptions, blocker \in Blockers, attacked \in BOOLEAN :
             \E input \in {CastleInput(color, king, near, far, blocker, attacked)} :
                 CastleMoves(input, color)
       \/ CastleMoves(PosOverflow, 0)
       \/ \E color \in 0..1 : CastleMoves(CastleLastClock(color), color)

\* Multipliers the host passes: seven different values, and those of ParamsFull.
WeighMultipliers ==
    {Multipliers(<<10, 11, 12, 13, 14, 15, 16>>), ParamsFull.position_multipliers}

\* square_weight_for_piece for a piece kind on a square of the board.
SquareWeight(piece_type, col, row, position_multipliers, has_position_multipliers) ==
    /\ res' = [op |-> "weigh", piece_type |-> piece_type, col |-> col, row |-> row,
               position_multipliers |-> position_multipliers,
               has_position_multipliers |-> has_position_multipliers,
               weight |-> square_weight_for_piece(piece_type, col, row, position_multipliers,
                                                  has_position_multipliers)]
    /\ UNCHANGED <<inp, st, last, played, cache, out, eval_out, calls>>

Weigh ==
    /\ res = NoCall
    /\ \E piece_type \in PIECE_PAWN..PIECE_KING, col \in 0..7, row \in 0..7,
          position_multipliers \in WeighMultipliers, has_position_multipliers \in -1..1 :
          SquareWeight(piece_type, col, row, position_multipliers, has_position_multipliers)

NextFunctions ==
    \/ Compare \/ Initialise \/ Generate \/ Create \/ Minimax \/ Backward \/ Apply \/ Castle
    \/ Weigh

SpecFunctions == InitFunctions /\ [][NextFunctions]_vars

----------------------------------------------------------------------------
(* Properties of single functions, under SpecFunctions *)

\* C11: compare_score is a strict lexicographic total order on (material,
\* heuristic) pairs: compare(a, b) = -compare(b, a); compare(a, b) = 0 exactly
\* when both components are equal; it is transitive; and a greater material
\* gives +1 whatever the two heuristic values are.
C11_LexicographicOrder ==
    res.op = "compare" =>
        /\ res.ab \in {-1, 0, 1}
        /\ res.ab = -res.ba
        /\ res.aa = 0
        /\ (res.ab = 0) <=> (res.a = res.b)
        /\ (res.ab >= 0 /\ res.bc >= 0) => res.ac >= 0
        /\ (res.ab > 0 /\ res.bc >= 0) => res.ac > 0
        /\ (res.ab >= 0 /\ res.bc > 0) => res.ac > 0
        /\ res.a.material > res.b.material => res.ab = 1

\* C11 witness: the greater material wins against the most extreme heuristics
\* the other way, and a third score ties the first on material only.
C11_MaterialOutranksHeuristic ==
    /\ res.op = "compare"
    /\ res.a.material = res.b.material + 1
    /\ res.a.heuristic = -SENTINEL
    /\ res.b.heuristic = SENTINEL
    /\ res.ab = 1
    /\ res.c.material = res.a.material
    /\ res.ac = -1

\* What the claim asks of piece i of the arrays: on the board, a kind in 0..5, a
\* color in 0..1, and on a square no earlier piece is on.
PieceRecordable(input, i) ==
    /\ input.piece_cols[i] \in 0..7
    /\ input.piece_rows[i] \in 0..7
    /\ input.piece_types[i] \in 0..5
    /\ input.piece_colors[i] \in 0..1
    /\ \A j \in 0..(i - 1) :
          ~(input.piece_cols[j] = input.piece_cols[i] /\ input.piece_rows[j] = input.piece_rows[i])

\* C12: init_state accepts its input exactly when piece_count is in 0..64 and every
\* piece below piece_count is on the board, of a kind in 0..5, of a color in 0..1
\* and on a square of no earlier piece; an accepted piece is recorded alive with
\* its four fields, and unmoved when piece_moved is absent.
C12_InitStateAccepts ==
    res.op = "init" =>
        /\ (res.ok = 1) <=>
              /\ res.inp.piece_count \in 0..64
              /\ \A i \in 0..(res.inp.piece_count - 1) : PieceRecordable(res.inp, i)
        /\ res.ok = 1 =>
              \A i \in 0..(res.inp.piece_count - 1) :
                  /\ res.state.alive[i] = 1
                  /\ res.state.piece_type[i] = res.inp.piece_types[i]
                  /\ res.state.piece_color[i] = res.inp.piece_colors[i]
                  /\ res.state.piece_col[i] = res.inp.piece_cols[i]
                  /\ res.state.piece_row[i] = res.inp.piece_rows[i]
                  /\ res.state.board[res.inp.piece_rows[i]][res.inp.piece_cols[i]] = i
                  /\ res.state.piece_moved[i] =
                        (IF "piece_moved" \in res.inp.null_args THEN 0 ELSE res.inp.piece_moved[i])

\* C12 witness: arrays naming moved pieces are accepted with piece_moved absent
\* and both pieces are recorded unmoved and alive.
C12_AcceptedWithoutMoved ==
    /\ res.op = "init"
    /\ res.ok = 1
    /\ res.inp.piece_count = 2
    /\ "piece_moved" \in res.inp.null_args
    /\ res.inp.piece_moved[0] = 1
    /\ res.state.piece_moved[0] = 0
    /\ res.state.piece_moved[1] = 0
    /\ res.state.alive[1] = 1


(***************************************************************************)
(* Properties of the nodes a search visits, under SpecSearch               *)
(***************************************************************************)

\* C13: in a search whose root has a halfmove clock below 100, no state with a
\* clock of 100 or more has a move applied to it, every visited state with both
\* kings and a clock of 100 or more is scored as the draw, and no visited
\* state has a clock above 100.
C13_ClockStopsSearch ==
    (res.op = "choose" /\ res.call.inp.halfmove_clock < 100) =>
        /\ res.seen.expanded_clock < 100
        /\ res.seen.undrawn = 0
        /\ res.seen.clock <= 100

\* C13 witness: a search from a clock below 100 has visited a state with both
\* kings whose clock is 100, below a state it expanded at clock 99.
C13_ReachedClockDraw ==
    /\ res.op = "choose"
    /\ res.status = 1
    /\ res.call.inp.halfmove_clock < 100
    /\ res.seen.clock = 100
    /\ res.seen.expanded_clock = 99
    /\ res.seen.depth >= 2

\* A call of choose_best_move_c with arguments it accepts, returned or not.
SearchStarted ==
    /\ res.op \in {"choose", "stopped"}
    /\ res.call.inp.null_args \cap ChooseRequired = {}
    /\ res.call.active_color \in {0, 1}
    /\ init_state(res.call.inp).ok = 1

\* The calls of a search nest at most max(plies, 1) deep, each level with one
\* remaining ply less than the level above, and no node with remaining_plies
\* <= 0 searches its moves.
SearchDepthBounded ==
    /\ res.seen.spent_expanded = 0
    /\ res.seen.depth <= (IF res.call.plies > 1 THEN res.call.plies ELSE 1)
    /\ res.seen.depth >= 1 =>
          /\ res.call.plies >= INT_MIN + res.seen.depth
          /\ res.seen.min_plies = res.call.plies - res.seen.depth

\* C14: a call of choose_best_move_c on a valid position ends for every int
\* plies, zero and negative included: it returns, the root's children are
\* called with plies - 1 and every level below with one less, no node with
\* remaining_plies <= 0 searches its moves, and the calls nest at most
\* max(plies, 1) deep.
C14_SearchDepthBounded ==
    SearchStarted => (res.op = "choose" /\ SearchDepthBounded)

\* C14 short of the least int: the same for every plies above INT_MIN.
SearchDepthBoundedAboveIntMin ==
    (SearchStarted /\ res.call.plies > INT_MIN) => (res.op = "choose" /\ SearchDepthBounded)

\* C14 where the build wraps: a returned call on INT_MIN is as deep as claimed.
SearchDepthBoundedWhenReturned ==
    (SearchStarted /\ res.op = "choose") => SearchDepthBounded

\* n is a power of two.
IsPowerOfTwo(n) == \E k \in 0..30 : n = 2 ^ k

\* C15 above 2^16 entries: the budget LargeBytes gave 2^17 entries, the index of
\* the hash basis took bit 16 of the key, and the key was found after its store.
C15_IndexAboveLowLimb ==
    /\ res.op = "create"
    /\ res.max_bytes = LargeBytes
    /\ res.handle.capacity = 131072
    /\ res.key = HASH_BASIS
    /\ res.index = HASH_BASIS[1] + LIMB
    /\ res.found.hit = 1

\* C15: a handle returned by create_search_cache_c for a budget of max_bytes has
\* a capacity that is a power of two and at most max_bytes / sizeof(entry), the
\* largest such power when the first allocation of the entries succeeded; the
\* bucket index key AND (capacity - 1) of lookup and store is below the capacity.
C15_CapacityPowerOfTwo ==
    (res.op = "create" /\ ~res.handle.ptr_null) =>
        /\ IsPowerOfTwo(res.handle.capacity)
        /\ res.handle.capacity <= res.max_bytes \div SIZEOF_CACHE_ENTRY
        /\ res.handle.capacity * SIZEOF_CACHE_ENTRY <= res.max_bytes
        /\ res.failures = 0 =>
              2 * res.handle.capacity > res.max_bytes \div SIZEOF_CACHE_ENTRY
        /\ res.index >= 0
        /\ res.index < res.handle.capacity
        /\ res.index \in DOMAIN res.handle.entries

\* C15 witness: a budget that is no multiple of the entry size and leaves room
\* for more than a power of two of entries gave that power of two; a key with all
\* bits set fell in the last bucket and was found again after its store.
C15_RoundedDownCapacity ==
    /\ res.op = "create"
    /\ ~res.handle.ptr_null
    /\ res.failures = 0
    /\ res.max_bytes % SIZEOF_CACHE_ENTRY # 0
    /\ res.handle.capacity = 8
    /\ res.max_bytes \div SIZEOF_CACHE_ENTRY > 8
    /\ res.index = res.handle.capacity - 1
    /\ res.found.hit = 1

\* The host passed a king of this color.
KingGiven(input, color) ==
    \E i \in 0..(input.piece_count - 1) :
        input.piece_types[i] = PIECE_KING /\ input.piece_colors[i] = color

\* C17: on a cache miss minimax_score_state returns (0, 0) when both kings are
\* absent, (-100000, 0) when only the perspective's king is absent, (+100000, 0)
\* when only the opponent's is, otherwise (0, 0) when halfmove_clock >= 100,
\* otherwise (0, 0) when the active color has no move, and the static
\* evaluation only when none of these applies and remaining_plies <= 0.
C17_TerminalBeforeCutoff ==
    res.op = "minimax" =>
        IF ~KingGiven(res.inp, 0) /\ ~KingGiven(res.inp, 1)
        THEN res.score = MkScore(0, 0)
        ELSE IF ~KingGiven(res.inp, res.perspective_color)
        THEN res.score = MkScore(-100000, 0)
        ELSE IF ~KingGiven(res.inp, 1 - res.perspective_color)
        THEN res.score = MkScore(100000, 0)
        ELSE IF res.inp.halfmove_clock >= 100
        THEN res.score = MkScore(0, 0)
        ELSE IF Len(generate_legal_moves_for_color(res.state, res.active_color)) = 0
        THEN res.score = MkScore(0, 0)
        ELSE res.remaining_plies <= 0 =>
                res.score = evaluate_state(res.state, res.perspective_color, res.params)

\* C17 witness: with no remaining plies, a halfmove clock of 100 and a static
\* evaluation far from zero, the state without the perspective's king was
\* scored as lost.
C17_MissingKingOutranksDraw ==
    /\ res.op = "minimax"
    /\ res.remaining_plies <= 0
    /\ res.inp.halfmove_clock >= 100
    /\ ~KingGiven(res.inp, res.perspective_color)
    /\ KingGiven(res.inp, 1 - res.perspective_color)
    /\ evaluate_state(res.state, res.perspective_color, res.params).material > 10
    /\ res.score = MkScore(-100000, 0)

\* The pawn the predicate was asked about, from the host's arrays.
PawnColor == res.inp.piece_colors[0]
PawnCol == res.inp.piece_cols[0]
PawnRow == res.inp.piece_rows[0]
PawnAhead == IF PawnColor = 0 THEN PawnRow + 1 ELSE PawnRow - 1

\* Piece i is a pawn of the color on a file adjacent to the pawn's.
AdjacentPawn(i, color) ==
    /\ res.inp.piece_types[i] = PIECE_PAWN
    /\ res.inp.piece_colors[i] = color
    /\ (res.inp.piece_cols[i] = PawnCol - 1 \/ res.inp.piece_cols[i] = PawnCol + 1)

\* (a) the square ahead of the pawn is on the board.
AheadOnBoard == PawnAhead >= 0 /\ PawnAhead <= 7

\* (c) an enemy pawn attacks the square ahead: it stands on an adjacent file, one
\* row further on.
AheadAttacked ==
    \E i \in 1..(res.inp.piece_count - 1) :
        /\ AdjacentPawn(i, 1 - PawnColor)
        /\ res.inp.piece_rows[i] = (IF PawnColor = 0 THEN PawnAhead + 1 ELSE PawnAhead - 1)

\* A friendly pawn on an adjacent file at the pawn's row or behind it.
FriendAtOrBehind ==
    \E i \in 1..(res.inp.piece_count - 1) :
        /\ AdjacentPawn(i, PawnColor)
        /\ (IF PawnColor = 0 THEN res.inp.piece_rows[i] <= PawnRow
                              ELSE res.inp.piece_rows[i] >= PawnRow)

\* A friendly pawn on an adjacent file at the pawn's row or ahead of it.
FriendAtOrAhead ==
    \E i \in 1..(res.inp.piece_count - 1) :
        /\ AdjacentPawn(i, PawnColor)
        /\ (IF PawnColor = 0 THEN res.inp.piece_rows[i] >= PawnRow
                              ELSE res.inp.piece_rows[i] <= PawnRow)

\* C18: is_backward_pawn_state is true for an alive pawn exactly when (a) the
\* square ahead of it is on the board, (b) no friendly pawn stands on an
\* adjacent file at its row or behind it (a lower row for white, a higher one
\* for black), and (c) some enemy pawn attacks the square ahead of it.
C18_BackwardPawn ==
    res.op = "backward" =>
        (res.backward = 1 <=> (AheadOnBoard /\ ~FriendAtOrBehind /\ AheadAttacked))

\* What the code computes: (b) with the rows at or ahead of the pawn's.
BackwardPawnAsCoded ==
    res.op = "backward" =>
        /\ res.backward \in {0, 1}
        /\ res.backward = 1 <=> (AheadOnBoard /\ ~FriendAtOrAhead /\ AheadAttacked)

\* The piece moved by the applied move, and whether it was a pawn that landed on
\* row 0 or 7.
AppliedPiece == res.before.board[res.move.from_row][res.move.from_col]

PawnLanded ==
    /\ res.op = "apply"
    /\ res.ok = 1
    /\ res.before.piece_type[AppliedPiece] = PIECE_PAWN
    /\ res.move.to_row \in {0, 7}

\* C19: a pawn that apply_move brings to row 0 or 7 gets the kind in the move's
\* promotion field when that field is one of 0..5 and QUEEN for every other
\* value of the field, so that after an accepted move every piece kind is
\* within 0..5.
C19_PromotionKind ==
    /\ PawnLanded =>
          res.state.piece_type[AppliedPiece] =
              (IF res.move.promotion_type \in 0..5 THEN res.move.promotion_type ELSE 4)
    /\ (res.op = "apply" /\ res.ok = 1) =>
          \A i \in 0..(res.state.piece_count - 1) : res.state.piece_type[i] \in 0..5

\* C19 witness: a pawn pushed to the last row with the field naming a knight
\* stands there as a knight.
C19_PromotedToKnight ==
    /\ PawnLanded
    /\ res.move.promotion_type = PIECE_KNIGHT
    /\ res.move.from_col = res.move.to_col
    /\ res.state.piece_type[AppliedPiece] = PIECE_KNIGHT
    /\ res.state.board[res.move.to_row][res.move.to_col] = AppliedPiece

\* C19 with a field that names no kind: a pawn landed on the last row with a
\* field below -1 and stands there as a queen.
C19_NoKindNamedQueen ==
    /\ PawnLanded
    /\ res.move.promotion_type < -1
    /\ res.state.piece_type[AppliedPiece] = PIECE_QUEEN

(***************************************************************************)
(* Generated moves, under SpecFunctions                                    *)
(***************************************************************************)

\* The piece of the generating color standing on a move's destination, if any.
OwnPieceOn(state, color, move) ==
    /\ state.board[move.to_row][move.to_col] # -1
    /\ state.piece_color[state.board[move.to_row][move.to_col]] = color

\* Move i of the list is a pawn's diagonal step onto an empty square.
EnPassantMove(state, move) ==
    /\ state.piece_type[state.board[move.from_row][move.from_col]] = PIECE_PAWN
    /\ move.from_col # move.to_col
    /\ state.board[move.to_row][move.to_col] = -1

\* C16: on a state that satisfies the occupancy invariant, whatever its
\* en-passant fields and moved flags, every move generate_legal_moves_for_color
\* produces for either color is accepted by apply_move on that state, stays on
\* the board and does not land on a piece of the moving color.
C16_GeneratedMovesApply ==
    (res.op = "generate" /\ Occupancy(res.state)) =>
        \A i \in 1..Len(res.moves) :
            /\ res.accepted[i] = 1
            /\ is_inside(res.moves[i].from_col, res.moves[i].from_row)
            /\ is_inside(res.moves[i].to_col, res.moves[i].to_row)
            /\ ~OwnPieceOn(res.state, res.color, res.moves[i])

\* C16 in the searches: no child of the root or of a minimax node is skipped.
NoChildSkipped == res.op = "choose" => res.seen.skipped = 0

\* C16 witness: the moves generated for a color, an en-passant capture and a
\* castling among them, were all accepted.
C16_WindowAndCastlingApplied ==
    /\ res.op = "generate"
    /\ Occupancy(res.state)
    /\ Len(res.moves) > 0
    /\ \A i \in 1..Len(res.moves) : res.accepted[i] = 1
    /\ \E i \in 1..Len(res.moves) : EnPassantMove(res.state, res.moves[i])
    /\ \E i \in 1..Len(res.moves) :
          res.moves[i].to_col - res.moves[i].from_col \in {2, -2}

(***************************************************************************)
(* En passant over two plies                                               *)
(***************************************************************************)

\* Unmoved pawns of both colors whose double push lands beside enemy pawns, and
\* a pawn one step from promotion.
PosPush ==
    NoWindow(<< <<5, 0, 0, 0, 1>>, <<5, 1, 7, 7, 1>>, <<0, 0, 4, 1, 0>>,
                <<0, 1, 3, 3, 1>>, <<0, 1, 5, 3, 1>>, <<0, 1, 1, 6, 0>>,
                <<0, 0, 2, 4, 1>>, <<0, 0, 6, 6, 1>> >>, 0)

\* A pawn the host reports unmoved two rows from the last rank, an enemy pawn on
\* that rank beside its file, and a pawn one step from promotion.
PosLastRankPush ==
    NoWindow(<< <<5, 0, 0, 0, 1>>, <<5, 1, 7, 2, 1>>, <<0, 0, 2, 5, 0>>,
                <<0, 1, 3, 7, 1>>, <<0, 0, 6, 6, 1>> >>, 0)

PassantInputs == {PosPush, PosLastRankPush}

InitPassant ==
    /\ inp \in PassantInputs
    /\ st = StateOf(inp)
    /\ last = NoMove
    /\ played = 0
    /\ cache = NullCache
    /\ out = HostOut
    /\ eval_out = HostEvalOut
    /\ res = NoCall
    /\ calls = 0

SpecPassant == InitPassant /\ [][Next]_vars

\* Piece j is an enemy pawn standing beside the square a double push has just
\* landed on.
BesidePush(j) ==
    /\ Accepted
    /\ IsDoublePush
    /\ st.alive[j] = 1
    /\ st.piece_type[j] = PIECE_PAWN
    /\ st.piece_color[j] # last.color
    /\ st.piece_row[j] = last.move.to_row
    /\ (st.piece_col[j] = last.move.to_col - 1 \/ st.piece_col[j] = last.move.to_col + 1)

\* The square the push passed over, and the en-passant move of pawn j onto it.
PassedRow == (last.move.from_row + last.move.to_row) \div 2

EnPassantOf(j) ==
    MkMove(st.piece_col[j], st.piece_row[j], last.move.from_col, PassedRow, -1)

\* Pawn j's en-passant move is among the moves generated for its color, the
\* target square is empty, and apply_move of it takes the pushed piece off the
\* capture square and puts pawn j on the target.
EnPassantOffered(j) ==
    /\ \E k \in 1..Len(generate_legal_moves_for_color(st, st.piece_color[j])) :
          generate_legal_moves_for_color(st, st.piece_color[j])[k] = EnPassantOf(j)
    /\ st.board[PassedRow][last.move.from_col] = -1
    /\ apply_move(st, EnPassantOf(j)).ok = 1
    /\ apply_move(st, EnPassantOf(j)).state.alive[Mover] = 0
    /\ apply_move(st, EnPassantOf(j)).state.board[last.move.to_row][last.move.to_col] = -1
    /\ apply_move(st, EnPassantOf(j)).state.board[PassedRow][last.move.from_col] = j

\* A move of the list is a pawn's diagonal step onto the empty square (col, row).
EnPassantOnto(state, move, col, row) ==
    /\ state.piece_type[state.board[move.from_row][move.from_col]] = PIECE_PAWN
    /\ move.from_col # move.to_col
    /\ move.to_col = col
    /\ move.to_row = row
    /\ state.board[row][col] = -1

\* After a move made while a window was open, no color is offered an en-passant
\* move onto that window's target.
WindowLapsed ==
    (Accepted /\ last.before.en_passant_target_col # -1) =>
        \A color \in 0..1 :
            \A k \in 1..Len(generate_legal_moves_for_color(st, color)) :
                ~EnPassantOnto(st, generate_legal_moves_for_color(st, color)[k],
                               last.before.en_passant_target_col,
                               last.before.en_passant_target_row)

\* C20 as stated: right after a two-square pawn push that lands beside an enemy
\* pawn, that pawn's generated moves include the non-promoting diagonal move
\* onto the window's target, applying it removes the pushed pawn from the
\* capture square while the target held no piece, and after any other move the
\* en-passant move is no longer generated.
C20_EnPassantOnePly ==
    /\ st # NoState => \A j \in 0..(st.piece_count - 1) : BesidePush(j) => EnPassantOffered(j)
    /\ WindowLapsed

\* C20 amended: the same for a two-square push that leaves the pushed piece a
\* pawn, i.e. that does not land on row 0 or 7, where the piece is promoted.
C20_EnPassantOnePlyOffLastRank ==
    /\ st # NoState =>
          \A j \in 0..(st.piece_count - 1) :
              (BesidePush(j) /\ last.move.to_row \notin {0, 7}) => EnPassantOffered(j)
    /\ WindowLapsed

\* C20 witness: the en-passant capture has been applied one ply after the push:
\* the pushed pawn is off the capture square, the capturer on the target.
C20_CapturedInPassing ==
    /\ Accepted
    /\ TookEnPassant
    /\ played = 2
    /\ last.move.promotion_type = -1
    /\ last.move.to_col = last.before.en_passant_target_col
    /\ last.move.to_row = last.before.en_passant_target_row
    /\ st.board[last.before.en_passant_capture_row][last.before.en_passant_capture_col] = -1
    /\ st.board[last.move.to_row][last.move.to_col] = Mover

(***************************************************************************)
(* Castling, under SpecFunctions                                           *)
(***************************************************************************)

\* The king move of color from (4, home_row) to column to_col is in the list.
CastlingEmitted(state, color, moves, to_col) ==
    /\ state.board[HomeRow(color)][4] # -1
    /\ state.piece_type[state.board[HomeRow(color)][4]] = PIECE_KING
    /\ state.piece_color[state.board[HomeRow(color)][4]] = color
    /\ \E i \in 1..Len(moves) :
          moves[i] = MkMove(4, HomeRow(color), to_col, HomeRow(color), -1)

\* The corner the king castles toward, and the columns between the two.
RookCorner(to_col) == IF to_col = 6 THEN 7 ELSE 0
BetweenCols(to_col) == IF to_col = 6 THEN {5, 6} ELSE {1, 2, 3}

\* The conditions of the specification for castling toward column to_col.
CastlingAllowed(state, color, to_col) ==
    /\ \E k \in 0..(state.piece_count - 1) :
          /\ state.alive[k] = 1
          /\ state.piece_type[k] = PIECE_KING
          /\ state.piece_color[k] = color
          /\ state.piece_moved[k] = 0
          /\ state.piece_col[k] = 4
          /\ state.piece_row[k] = HomeRow(color)
    /\ \E r \in 0..(state.piece_count - 1) :
          /\ state.alive[r] = 1
          /\ state.piece_type[r] = PIECE_ROOK
          /\ state.piece_color[r] = color
          /\ state.piece_moved[r] = 0
          /\ state.piece_col[r] = RookCorner(to_col)
          /\ state.piece_row[r] = HomeRow(color)
    /\ \A col \in BetweenCols(to_col) : state.board[HomeRow(color)][col] = -1

\* C21 as stated: the generator emits the castling move toward column 6 or 2 if
\* and only if the king is unmoved on (4, home_row), an alive unmoved rook of
\* its color stands on the corner and the squares between them are empty.
C21_CastlingGenerated ==
    (res.op = "castle" /\ Occupancy(res.state)) =>
        \A to_col \in {2, 6} :
            CastlingEmitted(res.state, res.color, res.moves, to_col)
                <=> CastlingAllowed(res.state, res.color, to_col)

\* C21 amended: the castling move is emitted only under those conditions, and
\* under them it is emitted whenever the list ends with fewer than MAX_MOVES
\* entries (append_move drops what does not fit).
C21_CastlingGeneratedUnlessFull ==
    (res.op = "castle" /\ Occupancy(res.state)) =>
        \A to_col \in {2, 6} :
            /\ CastlingEmitted(res.state, res.color, res.moves, to_col)
                   => CastlingAllowed(res.state, res.color, to_col)
            /\ (CastlingAllowed(res.state, res.color, to_col) /\ Len(res.moves) < MAX_MOVES)
                   => CastlingEmitted(res.state, res.color, res.moves, to_col)

\* An enemy rook bears on (5, home_row): it stands on column 5 with nothing
\* between it and the home row.
TransitAttacked(state, color) ==
    /\ state.board[4][5] # -1
    /\ state.piece_type[state.board[4][5]] = PIECE_ROOK
    /\ state.piece_color[state.board[4][5]] = opponent_color(color)
    /\ \A row \in 0..7 :
          ((row < 4 /\ row > HomeRow(color)) \/ (row > 4 /\ row < HomeRow(color)))
              => state.board[row][5] = -1

\* C21 witness: kingside castling is generated through an attacked square,
\* while queenside castling is not generated because the far rook has moved.
C21_CastledThroughAttack ==
    /\ res.op = "castle"
    /\ Occupancy(res.state)
    /\ TransitAttacked(res.state, res.color)
    /\ CastlingEmitted(res.state, res.color, res.moves, 6)
    /\ ~CastlingEmitted(res.state, res.color, res.moves, 2)
    /\ res.state.board[HomeRow(res.color)][0] # -1
    /\ res.state.piece_type[res.state.board[HomeRow(res.color)][0]] = PIECE_ROOK
    /\ res.state.piece_color[res.state.board[HomeRow(res.color)][0]] = res.color
    /\ \A col \in 1..3 : res.state.board[HomeRow(res.color)][col] = -1

\* Where the rook lands when the king castles to column to_col.
RookLanding(to_col) == IF to_col = 6 THEN 5 ELSE 3

\* apply_move accepted the castling move; after is the state it left: king and
\* rook on their new squares of the home row, their old squares empty, both
\* flagged moved, every piece as alive as before, the clock one higher.
CastledAsStated(before, color, to_col, ok, after) ==
    /\ ok = 1
    /\ after.board[HomeRow(color)][to_col] = before.board[HomeRow(color)][4]
    /\ after.piece_col[before.board[HomeRow(color)][4]] = to_col
    /\ after.piece_row[before.board[HomeRow(color)][4]] = HomeRow(color)
    /\ after.board[HomeRow(color)][RookLanding(to_col)]
           = before.board[HomeRow(color)][RookCorner(to_col)]
    /\ after.piece_type[after.board[HomeRow(color)][RookLanding(to_col)]] = PIECE_ROOK
    /\ after.piece_col[before.board[HomeRow(color)][RookCorner(to_col)]] = RookLanding(to_col)
    /\ after.piece_row[before.board[HomeRow(color)][RookCorner(to_col)]] = HomeRow(color)
    /\ after.board[HomeRow(color)][4] = -1
    /\ after.board[HomeRow(color)][RookCorner(to_col)] = -1
    /\ after.piece_moved[before.board[HomeRow(color)][4]] = 1
    /\ after.piece_moved[before.board[HomeRow(color)][RookCorner(to_col)]] = 1
    /\ after.alive = before.alive
    /\ OneGreater(after.halfmove_clock, before.halfmove_clock)

\* C22: applying a generated castling move puts the king on column 6 or 2 of
\* its home row and the rook of that side on column 5 or 3, empties (4,
\* home_row) and the rook's corner, flags king and rook as moved, captures
\* nothing and adds one to the halfmove clock.
C22_CastlingApplied ==
    (res.op = "castle" /\ Occupancy(res.state)) =>
        \A to_col \in {2, 6} :
            CastlingEmitted(res.state, res.color, res.moves, to_col)
                => CastledAsStated(res.state, res.color, to_col,
                                   res.castled[to_col].ok, res.castled[to_col].state)

\* C22 but for the clock at the greatest int: the same for every state whose
\* halfmove clock is below INT_MAX.
C22_CastlingAppliedBelowMax ==
    (res.op = "castle" /\ Occupancy(res.state) /\ res.state.halfmove_clock < INT_MAX) =>
        \A to_col \in {2, 6} :
            CastlingEmitted(res.state, res.color, res.moves, to_col)
                => CastledAsStated(res.state, res.color, to_col,
                                   res.castled[to_col].ok, res.castled[to_col].state)

\* C22 at the greatest int, in a build that wraps: both castling moves were
\* generated and applied as stated, but for the clock, left at INT_MIN.
C22_CastledOnLastClock ==
    /\ res.op = "castle"
    /\ res.state.halfmove_clock = INT_MAX
    /\ \A to_col \in {2, 6} :
          /\ CastlingEmitted(res.state, res.color, res.moves, to_col)
          /\ res.castled[to_col].ok = 1
          /\ res.castled[to_col].state.halfmove_clock = INT_MIN
          /\ res.castled[to_col].state.board[HomeRow(res.color)][RookLanding(to_col)] # -1

\* C22 at the greatest int, in a build that traps: both castling moves were
\* generated and neither call of apply_move returned.
C22_CastlingTrapped ==
    /\ res.op = "castle"
    /\ res.state.halfmove_clock = INT_MAX
    /\ \A to_col \in {2, 6} :
          /\ CastlingEmitted(res.state, res.color, res.moves, to_col)
          /\ res.castled[to_col].ok = NO_RETURN
          /\ res.castled[to_col].state = res.state

\* C22 witness: both castling moves of black were generated from one state and
\* each was applied to a copy of it.
C22_CastledBothSides ==
    /\ res.op = "castle"
    /\ res.color = 1
    /\ \A to_col \in {2, 6} :
          /\ CastlingEmitted(res.state, res.color, res.moves, to_col)
          /\ res.castled[to_col].ok = 1
          /\ res.castled[to_col].state.board[7][to_col] = res.state.board[7][4]
          /\ res.castled[to_col].state.board[7][RookLanding(to_col)] # -1

(***************************************************************************)
(* Castling rights along sequences of generated moves                      *)
(***************************************************************************)

\* Plies played from the root while the castling rights are followed.
MaxRightsPlies == 4

\* White can castle kingside; a second white rook stands on the h file; the
\* black knight can capture the rook on (7,0) or step between king and rook.
PosRights ==
    NoWindow(<< <<PIECE_KING, 0, 4, 0, 0>>, <<PIECE_ROOK, 0, 7, 0, 0>>,
                <<PIECE_ROOK, 0, 7, 3, 0>>, <<PIECE_KING, 1, 0, 7, 1>>,
                <<PIECE_KNIGHT, 1, 6, 2, 1>> >>, 0)

\* What has happened so far: which color's king has made a move, and which
\* home corners a rook of that color has left, by moving or by being captured.
NoRightsLost ==
    [op |-> "rights",
     king_moved |-> [color \in 0..1 |-> FALSE],
     rook_gone |-> [color \in 0..1 |-> [corner \in {0, 7} |-> FALSE]]]

\* The rook of color on its home corner leaves it with this move of mover_color:
\* it moves away, it is carried by castling, or it is captured there.
RookLeaves(state, move, mover_color, color, corner) ==
    LET mover == state.board[move.from_row][move.from_col]
        target == state.board[move.to_row][move.to_col]
    IN \/ /\ mover_color = color
          /\ state.piece_type[mover] = PIECE_ROOK
          /\ move.from_col = corner
          /\ move.from_row = HomeRow(color)
       \/ /\ mover_color = color
          /\ state.piece_type[mover] = PIECE_KING
          /\ move.to_col - move.from_col \in {2, -2}
          /\ corner = (IF move.to_col > move.from_col THEN 7 ELSE 0)
       \/ /\ target # -1
          /\ state.piece_type[target] = PIECE_ROOK
          /\ state.piece_color[target] = color
          /\ move.to_col = corner
          /\ move.to_row = HomeRow(color)

RightsAfter(rights, state, move, mover_color) ==
    [op |-> "rights",
     king_moved |->
        [color \in 0..1 |->
            \/ rights.king_moved[color]
            \/ /\ color = mover_color
               /\ state.piece_type[state.board[move.from_row][move.from_col]] = PIECE_KING],
     rook_gone |->
        [color \in 0..1 |-> [corner \in {0, 7} |->
            \/ rights.rook_gone[color][corner]
            \/ RookLeaves(state, move, mover_color, color, corner)]]]

InitRights ==
    /\ inp = PosRights
    /\ st = StateOf(inp)
    /\ last = NoMove
    /\ played = 0
    /\ cache = NullCache
    /\ out = HostOut
    /\ eval_out = HostEvalOut
    /\ res = NoRightsLost
    /\ calls = 0

\* The search's step, as ApplyGenerated, with the record of kings and rooks kept.
Advance ==
    /\ played < MaxRightsPlies
    /\ \E color \in ToMove :
        \E moves \in {generate_legal_moves_for_color(st, color)} :
            \E k \in 1..Len(moves) :
                \E applied \in {apply_move(st, moves[k])} :
                    /\ applied.ok = 1
                    /\ st' = applied.state
                    /\ last' = [kind |-> "apply", move |-> moves[k], color |-> color,
                                ok |-> applied.ok, before |-> st]
                    /\ res' = RightsAfter(res, st, moves[k], color)
    /\ played' = played + 1
    /\ UNCHANGED <<inp, cache, out, eval_out, calls>>

SpecRights == InitRights /\ [][Advance]_vars

\* C23: once a king has made a move no castling move is generated for its
\* color, and once the rook of a home corner has moved or been captured no
\* castling toward that corner is generated, in any later state.
C23_RightsNeverReturn ==
    res.op = "rights" =>
        \A color \in 0..1, to_col \in {2, 6} :
            (res.king_moved[color] \/ res.rook_gone[color][RookCorner(to_col)])
                => ~CastlingEmitted(st, color, generate_legal_moves_for_color(st, color), to_col)

\* C23 witness: the white king has moved and come back to (4,0), the rook of
\* (7,0) never left and the squares between them are empty.
C23_KingCameBack ==
    /\ res.op = "rights"
    /\ res.king_moved[0]
    /\ ~res.rook_gone[0][7]
    /\ st.board[0][4] # -1
    /\ st.piece_type[st.board[0][4]] = PIECE_KING
    /\ st.board[0][7] # -1
    /\ st.piece_type[st.board[0][7]] = PIECE_ROOK
    /\ st.piece_moved[st.board[0][7]] = 0
    /\ st.board[0][5] = -1
    /\ st.board[0][6] = -1

(***************************************************************************)
(* The moved flags, under Spec                                             *)
(***************************************************************************)

\* The rook a castling king move carries: the one on the corner it castles toward.
CarriedRook ==
    last.before.board[last.move.from_row][IF last.move.to_col > last.move.from_col THEN 7 ELSE 0]

\* C24: after every accepted apply_move a slot whose moved flag was set before
\* still has it set, the slot of the piece that moved has it set, and so has
\* the slot of the rook carried by castling.
C24_MovedMonotonic ==
    Accepted =>
        /\ \A i \in 0..(last.before.piece_count - 1) :
              last.before.piece_moved[i] # 0 => st.piece_moved[i] # 0
        /\ st.piece_moved[Mover] # 0
        /\ IsCastling => st.piece_moved[CarriedRook] # 0

\* C24 witness: a king and a rook that had never moved have castled and are
\* flagged, and a piece flagged before the move is flagged after it.
C24_CastledAndFlagged ==
    /\ Accepted
    /\ IsCastling
    /\ last.before.piece_moved[Mover] = 0
    /\ last.before.piece_moved[CarriedRook] = 0
    /\ st.piece_moved[Mover] = 1
    /\ st.piece_moved[CarriedRook] = 1
    /\ st.piece_col[CarriedRook] \in {3, 5}
    /\ \E i \in 0..(st.piece_count - 1) :
          i # Mover /\ i # CarriedRook /\ last.before.piece_moved[i] # 0 /\ st.piece_moved[i] # 0

(***************************************************************************)
(* The shape of the en-passant window                                      *)
(***************************************************************************)

WindowCleared(state) ==
    /\ state.en_passant_target_col = -1
    /\ state.en_passant_target_row = -1
    /\ state.en_passant_capture_col = -1
    /\ state.en_passant_capture_row = -1

\* Target and capture are squares of the board in one column, and a piece
\* stands on the capture square with the target one row behind it, behind
\* being row - 1 for a white piece and row + 1 for a black one.
WindowBehindPiece(state) ==
    /\ is_inside(state.en_passant_target_col, state.en_passant_target_row)
    /\ is_inside(state.en_passant_capture_col, state.en_passant_capture_row)
    /\ state.en_passant_target_col = state.en_passant_capture_col
    /\ state.board[state.en_passant_capture_row][state.en_passant_capture_col] # -1
    /\ state.en_passant_target_row =
          (IF state.piece_color[state.board[state.en_passant_capture_row]
                                           [state.en_passant_capture_col]] = 0
           THEN state.en_passant_capture_row - 1
           ELSE state.en_passant_capture_row + 1)

WindowWellFormed(state) ==
    \/ WindowCleared(state)
    \/ /\ WindowBehindPiece(state)
       /\ state.piece_type[state.board[state.en_passant_capture_row]
                                      [state.en_passant_capture_col]] = PIECE_PAWN

\* C25: the en-passant window of every state the search works on, the root
\* init_state builds from the host's four fields and every state apply_move
\* produces, is entirely cleared, or entirely set with target and capture on
\* the board in one column, the target one row behind the capture square in
\* the pushing pawn's direction of travel, and a pawn on the capture square.
C25_WindowWellFormed ==
    /\ res.op = "generate" => WindowWellFormed(res.state)
    /\ (res.op = "apply" /\ res.ok = 1) => WindowWellFormed(res.state)

\* What holds of the states apply_move produces from generated moves (under
\* Spec, SpecPassant and SpecRights): the window is cleared, or set behind the
\* piece that was pushed, which is a pawn unless the push ended on row 0 or 7.
WindowFromPush ==
    Accepted =>
        \/ WindowCleared(st)
        \/ /\ WindowBehindPiece(st)
           /\ st.board[st.en_passant_capture_row][st.en_passant_capture_col] = Mover
           /\ \/ st.piece_type[Mover] = PIECE_PAWN
              \/ st.en_passant_capture_row \in {0, 7}

\* The root states of the generate calls alone, and the applied states alone.
RootWindowWellFormed == res.op = "generate" => WindowWellFormed(res.state)
AppliedWindowWellFormed == (res.op = "apply" /\ res.ok = 1) => WindowWellFormed(res.state)

(***************************************************************************)
(* Square weights, under SpecFunctions                                     *)
(***************************************************************************)

\* The square classes of the specification's table, as sets of <<col, row>>.
Squares == (0..7) \X (0..7)
Orthogonal(a, b) ==
    \/ (a[1] = b[1] /\ (a[2] - b[2]) \in {-1, 1})
    \/ (a[2] = b[2] /\ (a[1] - b[1]) \in {-1, 1})
CenterSquares == {3, 4} \X {3, 4}
CenterCrossSquares ==
    {a \in Squares \ CenterSquares : \E b \in CenterSquares : Orthogonal(a, b)}
CenterDiagonalSquares == {2, 5} \X {2, 5}
CornerSquares == {0, 7} \X {0, 7}
CornerTouchSquares ==
    {a \in Squares \ CornerSquares :
        /\ a[1] \in {0, 7} \/ a[2] \in {0, 7}
        /\ \E b \in CornerSquares : Orthogonal(a, b)}

\* The first matching class in the order of the table decides the weight.
TableWeight(piece_type, square, m) ==
    IF square \in CenterSquares THEN m[0]
    ELSE IF square \in CenterCrossSquares THEN m[1]
    ELSE IF square \in CenterDiagonalSquares THEN m[2]
    ELSE IF square \in CornerSquares THEN (IF piece_type = PIECE_ROOK THEN m[4] ELSE m[3])
    ELSE IF square \in CornerTouchSquares THEN (IF piece_type = PIECE_ROOK THEN m[6] ELSE m[5])
    ELSE 1

\* The classes of the table a square belongs to.
ClassesOf(square) ==
    {k \in 1..5 : square \in <<CenterSquares, CenterCrossSquares, CenterDiagonalSquares,
                               CornerSquares, CornerTouchSquares>>[k]}

\* C26: with multipliers present square_weight_for_piece returns the
\* multiplier of the first class of the table that holds the square (a rook
\* taking m[4] and m[6] on corners and corner-touch squares), 1 on a square of
\* no class; a square is in at most one of the five classes, each class test
\* of the code agrees with the table; without multipliers the weight is 1.
C26_SquareWeight ==
    res.op = "weigh" =>
        /\ res.has_position_multipliers # 0 =>
              res.weight = TableWeight(res.piece_type, <<res.col, res.row>>,
                                       res.position_multipliers)
        /\ res.has_position_multipliers = 0 => res.weight = 1
        /\ Cardinality(ClassesOf(<<res.col, res.row>>)) <= 1
        /\ is_center_square(res.col, res.row) <=> <<res.col, res.row>> \in CenterSquares
        /\ is_center_cross_square(res.col, res.row)
              <=> <<res.col, res.row>> \in CenterCrossSquares
        /\ is_center_diagonal_square(res.col, res.row)
              <=> <<res.col, res.row>> \in CenterDiagonalSquares
        /\ is_corner_square(res.col, res.row) <=> <<res.col, res.row>> \in CornerSquares
        /\ is_corner_touch_square(res.col, res.row)
              <=> <<res.col, res.row>> \in CornerTouchSquares

\* C26 witness: a rook on a corner-touch square was given m[6], which differs
\* from the m[5] of the other kinds and from 1.
C26_RookBesideCorner ==
    /\ res.op = "weigh"
    /\ res.has_position_multipliers # 0
    /\ res.piece_type = PIECE_ROOK
    /\ <<res.col, res.row>> \in CornerTouchSquares
    /\ res.weight = res.position_multipliers[6]
    /\ res.weight # res.position_multipliers[5]
    /\ res.weight # 1

(***************************************************************************)
(* The material component, under Spec                                      *)
(***************************************************************************)

\* The sum of piece_values[kind] over the alive pieces from slot i on, added
\* for the pieces of perspective_color and subtracted for the others.
RECURSIVE MaterialSum(_, _, _, _)
MaterialSum(state, perspective_color, piece_values, i) ==
    IF i >= state.piece_count THEN 0
    ELSE (IF state.alive[i] = 0 THEN 0
          ELSE IF state.piece_color[i] = perspective_color
               THEN piece_values[state.piece_type[i]]
               ELSE -piece_values[state.piece_type[i]])
         + MaterialSum(state, perspective_color, piece_values, i + 1)

\* params with the pawn-rank table, the backward-pawn value, the square
\* multipliers and the opposite-bishop factor absent and control weight 0.
WithoutOptions(params) ==
    [params EXCEPT !.has_pawn_rank_values = 0,
                   !.has_backward_pawn_value = 0,
                   !.has_position_multipliers = 0,
                   !.control_weight = 0,
                   !.has_opposite_bishop_draw_factor = 0]

\* C27: the material component of evaluate_state is the signed sum of
\* piece_values[kind] over the alive pieces, the same with and without the
\* optional weights and the control weight; without them the heuristic
\* component is 0.
C27_MaterialIsPieceSum ==
    st # NoState =>
        \A params \in ParamSets, perspective_color \in 0..1 :
            \A weighted \in {evaluate_state(st, perspective_color, params)},
               plain \in {evaluate_state(st, perspective_color, WithoutOptions(params))} :
                /\ weighted.material = MaterialSum(st, perspective_color, params.piece_values, 0)
                /\ plain.material = weighted.material
                /\ plain.heuristic = 0

\* C27 witness: a state with a captured piece whose evaluation with every
\* weight present has a non-zero heuristic component, a non-zero material
\* component equal to the piece sum, and heuristic 0 once the weights are absent.
C27_WeightsLeaveMaterial ==
    /\ st # NoState
    /\ \E i \in 0..(st.piece_count - 1) : st.alive[i] = 0
    /\ evaluate_state(st, 0, ParamsFull).heuristic # 0
    /\ evaluate_state(st, 0, ParamsFull).material # 0
    /\ evaluate_state(st, 0, ParamsFull).material = MaterialSum(st, 0, ParamsFull.piece_values, 0)
    /\ evaluate_state(st, 0, WithoutOptions(ParamsFull)).heuristic = 0

(***************************************************************************)
(* Stores and lookups on one cache                                         *)
(***************************************************************************)

\* Stores made on the cache.
MaxStores == 3

\* A handle whose table has no entries (cache->capacity == 0).
EmptyCache == [ptr_null |-> FALSE, capacity |-> 0, entries |-> << >>]

\* Keys 0 and 2^48 share a bucket and differ in the top 16 bits only.
StoreKeys == {to_u64(0), <<0, 0, 0, 1>>, to_u64(1), to_u64(-1)}

\* <<active_color, remaining_plies>> of a store or a lookup.
StoreNodes == {<<0, 1>>, <<1, 1>>, <<1, 2>>}

StoreScores == {MkScore(1, 2), MkScore(3, -4)}

\* key mod capacity, the 64-bit key taken limb by limb from the top.
BucketOf(key, capacity) ==
    ((((((key[4] % capacity) * LIMB + key[3]) % capacity) * LIMB + key[2]) % capacity)
        * LIMB + key[1]) % capacity

NoStore == [stored |-> FALSE]

\* last remembers, for each bucket, the most recent store made into it.
InitCache ==
    /\ inp = PosEmpty
    /\ st = StateOf(PosEmpty)
    /\ cache \in {NullCache, EmptyCache, FreshCache(2 ^ CacheBits)}
    /\ last = [kind |-> "stores", recent |-> [b \in 0..(2 ^ CacheBits - 1) |-> NoStore]]
    /\ played = 0
    /\ out = HostOut
    /\ eval_out = HostEvalOut
    /\ res = NoCall
    /\ calls = 0

CacheStore(key, active_color, remaining_plies, score) ==
    /\ calls < MaxStores
    /\ cache' = cache_store(cache, key, active_color, remaining_plies, score)
    /\ last' = IF cache.capacity = 0 THEN last
               ELSE [last EXCEPT !.recent[BucketOf(key, cache.capacity)] =
                        [stored |-> TRUE, key |-> key, active_color |-> active_color,
                         remaining_plies |-> remaining_plies, score |-> score]]
    /\ res' = [op |-> "store", key |-> key, active_color |-> active_color,
               remaining_plies |-> remaining_plies, score |-> score]
    /\ calls' = calls + 1
    /\ UNCHANGED <<inp, st, played, out, eval_out>>

CacheLookup(key, active_color, remaining_plies) ==
    /\ res' = [op |-> "lookup", key |-> key, active_color |-> active_color,
               remaining_plies |-> remaining_plies,
               found |-> cache_lookup(cache, key, active_color, remaining_plies)]
    /\ UNCHANGED <<inp, st, last, played, cache, out, eval_out, calls>>

Store ==
    \E key \in StoreKeys, node \in StoreNodes, score \in StoreScores :
        CacheStore(key, node[1], node[2], score)

Lookup ==
    \E key \in StoreKeys, node \in StoreNodes : CacheLookup(key, node[1], node[2])

\* destroy_search_cache_c on the handle: the stores made into its table are gone
\* with it, and the host is left with the NULL handle.
CacheDestroy ==
    /\ cache' = destroy_search_cache_c(cache)
    /\ last' = [last EXCEPT !.recent = [b \in DOMAIN @ |-> NoStore]]
    /\ res' = [op |-> "destroy", handle |-> ~cache.ptr_null, capacity |-> cache.capacity]
    /\ UNCHANGED <<inp, st, played, out, eval_out, calls>>

NextCache == Store \/ Lookup \/ CacheDestroy

SpecCache == InitCache /\ [][NextCache]_vars

\* The most recent store into the bucket of the call recorded in res.
RecentStore == last.recent[BucketOf(res.key, cache.capacity)]

\* The most recent store into the bucket was made with the key, the active
\* color and the remaining plies of the call recorded in res.
RecentMatches ==
    /\ RecentStore.stored
    /\ RecentStore.key = res.key
    /\ RecentStore.active_color = res.active_color
    /\ RecentStore.remaining_plies = res.remaining_plies

\* C28: after any sequence of stores and lookups a lookup hits only if the
\* most recent store into bucket (key mod capacity) had its key, active color
\* and remaining plies, and then returns the score of that store; a store
\* replaces whatever its bucket held, so that such a lookup does hit; on a
\* null or empty cache every lookup misses.
C28_LookupSeesLastStore ==
    /\ (res.op = "lookup" /\ (cache.ptr_null \/ cache.capacity = 0)) => res.found.hit = 0
    /\ (res.op = "lookup" /\ ~cache.ptr_null /\ cache.capacity # 0) =>
          /\ res.found.hit = 1 <=> RecentMatches
          /\ res.found.hit = 1 => res.found.score = RecentStore.score
    /\ (res.op = "store" /\ ~cache.ptr_null /\ cache.capacity # 0) =>
          cache.entries[BucketOf(res.key, cache.capacity)] =
              [key |-> res.key, remaining_plies |-> res.remaining_plies,
               active_color |-> res.active_color, material |-> res.score.material,
               heuristic |-> res.score.heuristic, valid |-> 1]

\* C28 witness: key 0 was stored, a store of key 2^48 then took its bucket, and
\* the lookup of key 0 with the node of that second store misses.
C28_EvictedByLaterStore ==
    /\ res.op = "lookup"
    /\ cache.capacity # 0
    /\ calls >= 2
    /\ res.key = to_u64(0)
    /\ res.found.hit = 0
    /\ RecentStore.stored
    /\ RecentStore.key = <<0, 0, 0, 1>>
    /\ RecentStore.active_color = res.active_color
    /\ RecentStore.remaining_plies = res.remaining_plies
    /\ \A b \in 1..(cache.capacity - 1) : ~last.recent[b].stored

====
